---- MODULE Spec2Model ----
(***************************************************************************)
(* Model of the stage orchestration engine (app/agent/agent.py), the       *)
(* ability handlers (app/abilities/implementations.py) and the retrying    *)
(* capability client (app/mcp/clients.py).                                 *)
(*                                                                         *)
(* Spec is one run of LangGraphAgent.run under the default retry settings: *)
(* one step per stage marker, per ability iteration and per attempt of a   *)
(* capability call. SpecCall is one BaseMCPClient.call on its own under    *)
(* varying retry settings, with the history of its attempts and delays.    *)
(* SpecCancel is Spec with the run's task cancelled at a suspension point.  *)
(* SpecFair is Spec with every step of the run coming to an end. SpecTicket *)
(* is one run of the stages from the knowledge-base search to the ticket    *)
(* update that keeps the responses its calls received.                      *)
(* SpecPriority is one run of the default pipeline on every spelling of     *)
(* the priority "high" and on the priorities that are not high.             *)
(* SpecConc is several runs on one engine, interleaved at their suspension  *)
(* points. SpecScore is one evaluation of the scoring function, in the        *)
(* service's handler or in the standalone script, on inputs drawn from     *)
(* bounded sets.                                                           *)
(*                                                                         *)
(* Text values that the code upper-cases (priority, ticket_id) are         *)
(* sequences of one-character strings; Python's None is the tuple NoneStr. *)
(* Other text values are TLA+ strings, with "None" standing for None.      *)
(***************************************************************************)
EXTENDS Integers, Sequences, FiniteSets, TLC

\* ------------------------------------------------------------------ bounds
\* largest settings.RETRY_ATTEMPTS explored
MaxRetryAttempts == 3
\* largest settings.RETRY_WAIT_SECONDS explored
MaxBaseWait == 2
\* largest number of knowledge-base hits a response carries
MaxKbHits == 2
\* largest number of knowledge-base hits the scoring function is applied to
MaxScoreHits == 4
\* number of runs in progress on one engine at the same time
NumRuns == 2

\* ------------------------------------------------------- program constants
\* wait_exponential(..., max=10)
MaxWaitSeconds == 10
\* random.randint(-3, 3)
JitterLow == -3
JitterHigh == 3
\* random.randint(-5, 5) in the standalone script
DemoJitterLow == -5
DemoJitterHigh == 5
\* Settings.RETRY_ATTEMPTS: int = 3
RETRY_ATTEMPTS == 3
\* Settings.RETRY_WAIT_SECONDS: int = 1
RETRY_WAIT_SECONDS == 1

Min(a, b) == IF a <= b THEN a ELSE b
Max(a, b) == IF a >= b THEN a ELSE b

\* ------------------------------------------------------------ text values
NoneStr == <<"None">>
LowerLetters == <<"a","b","c","d","e","f","g","h","i","j","k","l","m",
                  "n","o","p","q","r","s","t","u","v","w","x","y","z">>
UpperLetters == <<"A","B","C","D","E","F","G","H","I","J","K","L","M",
                  "N","O","P","Q","R","S","T","U","V","W","X","Y","Z">>

\* str.upper() on one character: lower-case letters map to upper case,
\* every other character (upper-case letters, digits, '-') is unchanged
UpperChar(c) ==
    IF \E i \in 1..26 : LowerLetters[i] = c
    THEN UpperLetters[CHOOSE i \in 1..26 : LowerLetters[i] = c]
    ELSE c

\* str.upper()
Upper(s) == [i \in 1..Len(s) |-> UpperChar(s[i])]

\* Python truthiness of an optional text value: None and "" are falsy
Truthy(s) == s # NoneStr /\ s # <<>>

S_high == <<"h","i","g","h">>
S_High == <<"H","i","g","h">>
S_HIGH == <<"H","I","G","H">>
S_low == <<"l","o","w">>
S_NORMAL == <<"N","O","R","M","A","L">>
S_tckt1 == <<"t","c","k","t","-","1">>
S_TCKT1 == <<"T","C","K","T","-","1">>

\* ----------------------------------------------------------- stage model
\* dataclass Stage(name, mode, abilities, exec_rule=None); an ability is
\* represented by its name (mcp and prompt are never read by the engine)
Stage(name, mode, abilities, exec_rule) ==
    [name |-> name, mode |-> mode, abilities |-> abilities, exec_rule |-> exec_rule]

STAGE_CONFIG == <<
    Stage("INTAKE", "deterministic", <<"accept_payload">>, "None"),
    Stage("UNDERSTAND", "deterministic", <<"parse_request_text", "extract_entities">>, "None"),
    Stage("PREPARE", "deterministic",
          <<"normalize_fields", "enrich_records", "add_flags_calculations">>, "None"),
    Stage("ASK", "human", <<"clarify_question">>, "None"),
    Stage("WAIT", "deterministic", <<"extract_answer", "store_answer">>, "None"),
    Stage("RETRIEVE", "deterministic", <<"knowledge_base_search", "store_data">>, "None"),
    Stage("DECIDE", "non-deterministic",
          <<"solution_evaluation", "escalation_decision", "update_payload">>,
          "score_then_maybe_escalate"),
    Stage("UPDATE", "deterministic", <<"update_ticket", "close_ticket">>, "None"),
    Stage("CREATE", "deterministic", <<"response_generation">>, "None"),
    Stage("DO", "deterministic", <<"execute_api_calls", "trigger_notifications">>, "None"),
    Stage("COMPLETE", "deterministic", <<"output_payload">>, "None") >>

\* the names ABILITY_LOOKUP maps to a handler
ABILITY_LOOKUP == {
    "accept_payload", "parse_request_text", "extract_entities", "normalize_fields",
    "enrich_records", "add_flags_calculations", "clarify_question", "extract_answer",
    "store_answer", "knowledge_base_search", "store_data", "solution_evaluation",
    "escalation_decision", "update_payload", "update_ticket", "close_ticket",
    "response_generation", "execute_api_calls", "trigger_notifications", "output_payload" }

\* ------------------------------------------------------------ run state
\* state = {"payload": dict(input_payload)}: the payload fields the handlers
\* read or write (priority, ticket_id, status), the set of further top-level
\* keys present in the state dict, and the values stored under them
InitialState(input_payload) ==
    [ payload       |-> input_payload,
      keys          |-> {},
      sla_risk      |-> FALSE,
      answers       |-> <<>>,
      latest_answer |-> "None",
      kb_hits       |-> 0,
      has_score     |-> FALSE,
      score         |-> 0,
      escalated_to  |-> "unset",
      audit         |-> <<>> ]

\* variant: state = {"payload": input_payload}, the caller's dict itself
CallerDict_aliased(input, payload) == payload

\* the caller's dict as it is while the run works on payload: the state's
\* payload is dict(input_payload), a new dict holding the same items, so
\* what the handlers write to it does not reach the caller's dict
CallerDict(input, payload) == input

\* the keyword arguments the engine passes to a handler
NoExtra == [has_input |-> FALSE, input_payload |-> <<>>, simulate_human_answer |-> "None"]

\* variant: a missing score reads as 0 whatever default the reader gives
ScoreOr_zero(st, dflt) == IF st.has_score THEN st.score ELSE 0

\* state.get('decision', {}).get('score', dflt)
ScoreOr(st, dflt) == IF st.has_score THEN st.score ELSE dflt

\* state.get('decision', {}).get('escalated_to')
EscalatedToOrNone(st) == IF st.escalated_to = "unset" THEN "None" ELSE st.escalated_to

\* dict.get on a response body: a body without the expected fields (for
\* example the error document of a 4xx response) yields the default
BodyHits(body) == IF body.fields THEN body.hits ELSE 0
BodyAssignedTo(body) == IF body.fields THEN "agent-7" ELSE "None"
BodyAnswer(body) == IF body.fields THEN "remote answer" ELSE "None"

\* --------------------------------------------------- handlers without await
accept_payload(st, extra) ==
    [ state |-> IF extra.has_input
                THEN [st EXCEPT !.payload.priority = extra.input_payload.priority,
                                !.payload.ticket_id = extra.input_payload.ticket_id]
                ELSE st,
      res |-> "ok" ]

parse_request_text(st, extra) ==
    [ state |-> [st EXCEPT !.keys = @ \cup {"parsed"}], res |-> "ok" ]

\* variant: the priority is defaulted but not upper-cased
normalize_fields_as_given(st, extra) ==
    LET p == st.payload
        prio == IF Truthy(p.priority) THEN p.priority ELSE S_NORMAL
        tid == IF Truthy(p.ticket_id) THEN Upper(p.ticket_id) ELSE p.ticket_id
    IN [ state |-> [st EXCEPT !.payload.priority = prio, !.payload.ticket_id = tid],
         res |-> "ok" ]

normalize_fields(st, extra) ==
    LET p == st.payload
        prio == Upper(IF Truthy(p.priority) THEN p.priority ELSE S_NORMAL)
        tid == IF Truthy(p.ticket_id) THEN Upper(p.ticket_id) ELSE p.ticket_id
    IN [ state |-> [st EXCEPT !.payload.priority = prio, !.payload.ticket_id = tid],
         res |-> "ok" ]

add_flags_calculations(st, extra) ==
    [ state |-> [st EXCEPT !.keys = @ \cup {"flags"},
                           !.sla_risk = (st.payload.priority = S_HIGH)],
      res |-> "ok" ]

store_answer(st, extra) ==
    [ state |-> [st EXCEPT !.keys = @ \cup {"latest_answer"},
                           !.latest_answer = IF st.answers # <<>>
                                             THEN st.answers[Len(st.answers)]
                                             ELSE "None"],
      res |-> "ok" ]

store_data(st, extra) == [ state |-> st, res |-> "ok" ]

\* variant: the priority plays no part in the base
ScoreBase_no_penalty(st) == 70 + Min(20, st.kb_hits * 10)

\* base = 70 + min(20, kb_hits * 10); minus 10 for priority "HIGH";
\* score = max(0, min(100, base + random.randint(-3, 3)))
ScoreBase(st) ==
    LET base == 70 + Min(20, st.kb_hits * 10)
    IN IF st.payload.priority = S_HIGH THEN base - 10 ELSE base

\* variant: neither the hit bonus nor the score is bounded
solution_evaluation_unbounded(st, jitter) ==
    LET base == 70 + st.kb_hits * 10
        score == (IF st.payload.priority = S_HIGH THEN base - 10 ELSE base) + jitter
    IN [ state |-> [st EXCEPT !.keys = @ \cup {"decision"},
                              !.has_score = TRUE, !.score = score],
         res |-> score ]

solution_evaluation(st, jitter) ==
    LET score == Max(0, Min(100, ScoreBase(st) + jitter))
    IN [ state |-> [st EXCEPT !.keys = @ \cup {"decision"},
                              !.has_score = TRUE, !.score = score],
         res |-> score ]

\* ability_solution_evaluation of the standalone script: base = 70;
\* base += min(20, kb_hits * 10); if priority == "HIGH": base -= 10;
\* score = max(0, min(100, base + random.randint(-5, 5)))
ability_solution_evaluation(st, jitter) ==
    LET base0 == 70
        base1 == base0 + Min(20, st.kb_hits * 10)
        base2 == IF st.payload.priority = S_HIGH THEN base1 - 10 ELSE base1
        score == Max(0, Min(100, base2 + jitter))
    IN [ state |-> [st EXCEPT !.keys = @ \cup {"decision"},
                              !.has_score = TRUE, !.score = score],
         res |-> score ]

update_payload(st, extra) ==
    [ state |-> [st EXCEPT !.keys = @ \cup {"audit"},
                           !.audit = Append(@, IF "decision" \in st.keys
                                               THEN "decision" ELSE "empty")],
      res |-> "ok" ]

response_generation(st, extra) ==
    [ state |-> [st EXCEPT !.keys = @ \cup {"generated_response"}], res |-> "response" ]

output_payload(st, extra) == [ state |-> st, res |-> "final_payload" ]

\* the branch of extract_answer taken when a truthy simulated answer is given
extract_answer_simulated(st, extra) ==
    [ state |-> [st EXCEPT !.keys = @ \cup {"answers"},
                           !.answers = Append(@, extra.simulate_human_answer)],
      res |-> extra.simulate_human_answer ]

\* the branch of escalation_decision taken when score >= 90
escalation_decision_skip(st, extra) == [ state |-> st, res |-> "not_escalated" ]

\* the branch of close_ticket taken when score < 90
close_ticket_skip(st, extra) == [ state |-> st, res |-> "not_closed" ]

\* ------------------------------------------------------ handlers with await
\* variant: a score of exactly 90 does not close the ticket
NeedsCall_close_above(name, st, extra) ==
    \/ name \in {"extract_entities", "enrich_records", "clarify_question",
                 "knowledge_base_search", "update_ticket", "execute_api_calls",
                 "trigger_notifications"}
    \/ name = "extract_answer" /\ extra.simulate_human_answer \in {"None", ""}
    \/ name = "escalation_decision" /\ ScoreOr(st, 100) < 90
    \/ name = "close_ticket" /\ ScoreOr(st, 0) > 90

\* variant: close_ticket issues its call whatever the score
NeedsCall_close_always(name, st, extra) ==
    \/ name \in {"extract_entities", "enrich_records", "clarify_question",
                 "knowledge_base_search", "update_ticket", "execute_api_calls",
                 "trigger_notifications", "close_ticket"}
    \/ name = "extract_answer" /\ extra.simulate_human_answer \in {"None", ""}
    \/ name = "escalation_decision" /\ ScoreOr(st, 100) < 90

\* does this invocation of the handler reach an atlas_client.call?
NeedsCall(name, st, extra) ==
    \/ name \in {"extract_entities", "enrich_records", "clarify_question",
                 "knowledge_base_search", "update_ticket", "execute_api_calls",
                 "trigger_notifications"}
    \/ name = "extract_answer" /\ extra.simulate_human_answer \in {"None", ""}
    \/ name = "escalation_decision" /\ ScoreOr(st, 100) < 90
    \/ name = "close_ticket" /\ ScoreOr(st, 0) >= 90

\* variant: the escalation assignee is not propagated to the ticket
CallRequest_no_assignee(name, st) ==
    [ op |-> name,
      args |-> CASE name = "update_ticket" ->
                      << st.payload.ticket_id, "in_progress", st.payload.priority, "None" >>
                 [] name = "close_ticket" -> << st.payload.ticket_id >>
                 [] OTHER -> << >> ]

\* the request of the capability call: operation name and the arguments of
\* the request body that the handlers build themselves
CallRequest(name, st) ==
    [ op |-> name,
      args |-> CASE name = "update_ticket" ->
                      << st.payload.ticket_id, "in_progress",
                         st.payload.priority, EscalatedToOrNone(st) >>
                 [] name = "close_ticket" -> << st.payload.ticket_id >>
                 [] OTHER -> << >> ]

\* the handlers that read the response with resp.get(...)
ReadsBody == {"extract_entities", "enrich_records", "clarify_question",
              "extract_answer", "knowledge_base_search", "escalation_decision"}

\* the part of a calling handler that runs after the call has returned body.
\* A body that is JSON but not an object has no get: the handler raises
\* AttributeError, after whatever it evaluated before reading the body
\* (enrich_records and extract_answer have already run their setdefault)
AfterCall(name, st, body) ==
    IF name \in ReadsBody /\ ~body.object
    THEN [ state |-> CASE name = "enrich_records" ->
                            [st EXCEPT !.keys = @ \cup {"enrichment"}]
                       [] name = "extract_answer" ->
                            [st EXCEPT !.keys = @ \cup {"answers"}]
                       [] OTHER -> st,
           res |-> "none", exc |-> "AttributeError" ]
    ELSE
    CASE name = "extract_entities" ->
            [ state |-> [st EXCEPT !.keys = @ \cup {"entities"}],
              res |-> "ok", exc |-> "none" ]
      [] name = "enrich_records" ->
            [ state |-> [st EXCEPT !.keys = @ \cup {"enrichment"}],
              res |-> "ok", exc |-> "none" ]
      [] name = "clarify_question" ->
            [ state |-> [st EXCEPT !.keys = @ \cup {"pending_clarification"}],
              res |-> "ok", exc |-> "none" ]
      [] name = "extract_answer" ->
            [ state |-> [st EXCEPT !.keys = @ \cup {"answers"},
                                   !.answers = Append(@, BodyAnswer(body))],
              res |-> BodyAnswer(body), exc |-> "none" ]
      [] name = "knowledge_base_search" ->
            [ state |-> [st EXCEPT !.keys = @ \cup {"kb"}, !.kb_hits = BodyHits(body)],
              res |-> "ok", exc |-> "none" ]
      [] name = "escalation_decision" ->
            [ state |-> [st EXCEPT !.escalated_to = BodyAssignedTo(body)],
              res |-> "escalated", exc |-> "none" ]
      [] name = "close_ticket" ->
            [ state |-> [st EXCEPT !.payload.status = "closed"],
              res |-> "resp", exc |-> "none" ]
      [] OTHER -> [ state |-> st, res |-> "resp", exc |-> "none" ]

\* a handler invocation that completes without a capability call
RunLocal(name, st, extra, jitter) ==
    CASE name = "accept_payload" -> accept_payload(st, extra)
      [] name = "parse_request_text" -> parse_request_text(st, extra)
      [] name = "normalize_fields" -> normalize_fields(st, extra)
      [] name = "add_flags_calculations" -> add_flags_calculations(st, extra)
      [] name = "extract_answer" -> extract_answer_simulated(st, extra)
      [] name = "store_answer" -> store_answer(st, extra)
      [] name = "store_data" -> store_data(st, extra)
      [] name = "solution_evaluation" -> solution_evaluation(st, jitter)
      [] name = "escalation_decision" -> escalation_decision_skip(st, extra)
      [] name = "update_payload" -> update_payload(st, extra)
      [] name = "close_ticket" -> close_ticket_skip(st, extra)
      [] name = "response_generation" -> response_generation(st, extra)
      [] name = "output_payload" -> output_payload(st, extra)

\* ------------------------------------------------------ capability client
\* what one HTTP exchange can produce: a transport-level failure, or a
\* response with a status code and a body that is a JSON object carrying the
\* expected fields, a JSON object without them, JSON that is not an object,
\* or not JSON at all
StatusCodes == {200, 404, 500, 503}

AttemptOutcomes(op) ==
    { [transport |-> TRUE, status |-> 0, json |-> "none", hits |-> 0] }
    \cup
    { [transport |-> FALSE, status |-> sc, json |-> j, hits |-> h] :
        sc \in StatusCodes, j \in {"nofields", "nonobject", "malformed"}, h \in {0} }
    \cup
    { [transport |-> FALSE, status |-> sc, json |-> "fields", hits |-> h] :
        sc \in StatusCodes,
        h \in IF op = "knowledge_base_search" THEN 0..MaxKbHits ELSE {0} }

\* the body of "with attempt:": post, check for a 5xx status, decode the body.
\* exc is the exception raised inside the attempt ("none": the body returned)
NoBody == [object |-> FALSE, fields |-> FALSE, hits |-> 0]

AttemptBody(o) ==
    IF o.transport THEN [exc |-> "TransportError", body |-> NoBody]
    ELSE IF o.status >= 500 THEN [exc |-> "MCPClientError", body |-> NoBody]
    ELSE IF o.json = "malformed" THEN [exc |-> "JSONDecodeError", body |-> NoBody]
    ELSE [exc |-> "none",
          body |-> [object |-> (o.json # "nonobject"),
                    fields |-> (o.json = "fields"), hits |-> o.hits]]

\* variant: no exception type is retried
RetryPredicate_never(exc) == FALSE

\* retry=retry_if_exception_type((httpx.TransportError, httpx.RequestError))
RetryPredicate(exc) == exc = "TransportError"

\* variant: the retrying stops one attempt later
StopAfterAttempt_one_more(n, attempt_number) == attempt_number >= n + 1

\* stop=stop_after_attempt(settings.RETRY_ATTEMPTS)
StopAfterAttempt(n, attempt_number) == attempt_number >= n

\* reraise=True: when the retrying stops, the last attempt's exception is
\* raised as it is
RaisedOnStop(exc) == exc

\* wait=wait_exponential(multiplier=1, min=settings.RETRY_WAIT_SECONDS, max=10)
\* evaluated after attempt attempt_number has failed
WaitExponential(base, attempt_number) ==
    Max(Max(0, base), Min(1 * 2 ^ (attempt_number - 1), MaxWaitSeconds))

\* what the retrying loop does once attempt attempt_number has produced o
CallStep(n, attempt_number, o) ==
    LET r == AttemptBody(o)
    IN IF r.exc = "none" THEN [kind |-> "return", exc |-> "none", body |-> r.body]
       ELSE IF ~RetryPredicate(r.exc) THEN [kind |-> "raise", exc |-> r.exc, body |-> r.body]
       ELSE IF StopAfterAttempt(n, attempt_number)
            THEN [kind |-> "raise", exc |-> RaisedOnStop(r.exc), body |-> r.body]
            ELSE [kind |-> "retry", exc |-> r.exc, body |-> r.body]

\* how a call that has made attempt_number attempts ends under decision d
\* (a retry leaves the record of the previous call as it is)
CallEnd(op, attempt_number, d, last) ==
    IF d.kind = "retry" THEN last
    ELSE [ op |-> op, attempts |-> attempt_number,
           result |-> IF d.kind = "return" THEN "returned" ELSE "raised",
           exc |-> d.exc, body |-> d.body ]

\* ------------------------------------------------------------ the engine
\* stage lists an engine is constructed with: the default one and lists that
\* exercise single features. The engine runs under the default retry
\* settings; SpecCall below varies them.
PrepareAbilities == <<"normalize_fields", "enrich_records", "add_flags_calculations">>

PermutedStages ==
    { << Stage("PREPARE", m, [i \in 1..3 |-> PrepareAbilities[p[i]]], "None"),
         Stage("COMPLETE", "deterministic", <<"output_payload">>, "None") >> :
        p \in Permutations(1..3), m \in {"deterministic", "human"} }

DecideStages ==
    { << Stage("RETRIEVE", "deterministic", <<"knowledge_base_search", "store_data">>, "None"),
         Stage("DECIDE", "non-deterministic",
               <<"solution_evaluation", "escalation_decision", "update_payload">>,
               "score_then_maybe_escalate"),
         Stage("WAIT", "deterministic", <<"extract_answer", "store_answer">>, "None") >> }

\* a stage that declares an ability name ABILITY_LOOKUP has no handler for,
\* between two abilities it has handlers for, followed by a later stage
MissingStages ==
    { << Stage("PREPARE", m, <<"normalize_fields", "no_such_ability", "enrich_records">>,
               "None"),
         Stage("COMPLETE", "deterministic", <<"output_payload">>, "None") >> :
        m \in {"deterministic", "human"} }

\* decision stages that declare an ability name without a handler: under a
\* rule other than score_then_maybe_escalate (or none), and under that rule
FallbackStages ==
    { << Stage("DECIDE", "non-deterministic",
               <<"solution_evaluation", "no_such_ability", "escalation_decision",
                 "update_payload">>, r),
         Stage("COMPLETE", "deterministic", <<"output_payload">>, "None") >> :
        r \in {"None", "other_rule", "score_then_maybe_escalate"} }

\* a decision stage without a rule, declaring the three decision abilities in
\* another order than the rule's protocol, after the knowledge-base stage
FallbackOrderStages ==
    { << Stage("RETRIEVE", "deterministic", <<"knowledge_base_search", "store_data">>, "None"),
         Stage("DECIDE", "non-deterministic",
               <<"update_payload", "solution_evaluation", "escalation_decision">>, "None") >> }

\* a decision stage with the rule score_then_maybe_escalate that declares no
\* ability at all, and one that declares the three decision abilities in
\* reverse order, after the knowledge-base search
RuleDeclStages ==
    { << Stage("DECIDE", "non-deterministic", << >>, "score_then_maybe_escalate") >>,
      << Stage("RETRIEVE", "deterministic", <<"knowledge_base_search">>, "None"),
         Stage("DECIDE", "non-deterministic",
               <<"update_payload", "escalation_decision", "solution_evaluation">>,
               "score_then_maybe_escalate") >> }

\* the escalation and recording abilities without the scoring ability, in a
\* sequential stage or in a decision stage without a rule, before the
\* ticket-update stage: no score is ever recorded
NoScoreStages ==
    { << Stage("DECIDE", m, <<"escalation_decision", "update_payload">>, "None"),
         Stage("UPDATE", "deterministic", <<"update_ticket", "close_ticket">>, "None") >> :
        m \in {"deterministic", "non-deterministic"} }

\* the ticket-update stage on its own: no score is ever recorded
UpdateOnlyStages ==
    { << Stage("UPDATE", "deterministic", <<"update_ticket", "close_ticket">>, "None") >> }

\* a stage whose mode is none of "deterministic", "human" and
\* "non-deterministic", declaring abilities that have handlers, between two
\* stages of a known mode
UnknownModeStages ==
    { << Stage("PREPARE", "deterministic", <<"normalize_fields">>, "None"),
         Stage("ENRICH", m, <<"enrich_records", "add_flags_calculations">>, "None"),
         Stage("COMPLETE", "deterministic", <<"output_payload">>, "None") >> :
        m \in {"parallel", "sequential"} }

StageConfigs ==
    {STAGE_CONFIG} \cup PermutedStages \cup DecideStages \cup MissingStages
    \cup FallbackStages \cup UpdateOnlyStages \cup UnknownModeStages
    \cup FallbackOrderStages \cup RuleDeclStages \cup NoScoreStages

Priorities == {NoneStr, S_high, S_HIGH, S_low}
TicketIds == {NoneStr, S_tckt1}
SimulatedAnswers == {"None", "", "INV-9876, check billing cycle"}

NoPayload == [priority |-> NoneStr, ticket_id |-> NoneStr, status |-> "None"]
NoCall == [op |-> "none", attempts |-> 0, result |-> "none", exc |-> "none",
           body |-> NoBody]

VARIABLES
    stages,                 \* self.stages
    maxAttempts,            \* settings.RETRY_ATTEMPTS
    baseWait,               \* settings.RETRY_WAIT_SECONDS
    input_payload,          \* argument of run
    simulate_human_answer,  \* argument of run
    pc,                     \* position of the run
    si,                     \* index of the current stage
    ai,                     \* index of the current ability / protocol step
    state,                  \* the run's state dict
    logs,                   \* the run's log list
    calls,                  \* history: handler invocations <<stage index, name>>
    mcp,                    \* history: capability calls issued
    attempt,                \* attempt_number of the call in flight (0: none)
    tried,                  \* history: outcomes of the attempts of a call
    sleeps,                 \* history: delays slept between attempts of a call
    lastCall,               \* history: how a call ended
    drawn,                  \* history: the value random.randint last returned
    error,                  \* exception caught by run ("none" if none)
    raised,                 \* history: <<stage index, ability, exception>> of
                            \* the handler invocation that raised
    persistCount,           \* number of _persist_run invocations
    persistOk,              \* did the commit of the run record succeed
    persisted,              \* rows committed to agent_runs
    outcome,                \* what the caller of run has received: "returned",
                            \* or the name of the exception raised to it
    cancelling,             \* a CancelledError raised at an await of the run is
                            \* on its way out through _persist_run
    ctl,                    \* concurrent runs: each run's position, error,
                            \* outcome and the responses it has received
    frames,                 \* concurrent runs: the state dict and the log list
                            \* created by each call of run
    rows,                   \* concurrent runs: rows committed to agent_runs
    alone                   \* history: each concurrent run as it would be had
                            \* it run alone on its input and its responses

vars == << stages, maxAttempts, baseWait, input_payload, simulate_human_answer,
           pc, si, ai, state, logs, calls, mcp, attempt, tried, sleeps, lastCall,
           drawn, error, raised, persistCount, persistOk, persisted, outcome,
           cancelling, ctl, frames, rows, alone >>

cfgVars == << stages, maxAttempts, baseWait >>
concVars == << ctl, frames, rows, alone >>
argVars == << input_payload, simulate_human_answer >>
taskVars == << cancelling >>
callVars == << attempt, tried, sleeps, lastCall >>
endVars == << error, raised, persistCount, persistOk, persisted, outcome >>

Init ==
    /\ stages \in StageConfigs
    /\ maxAttempts = RETRY_ATTEMPTS
    /\ baseWait = RETRY_WAIT_SECONDS
    /\ input_payload = NoPayload
    /\ simulate_human_answer = "None"
    /\ pc = "idle"
    /\ si = 0
    /\ ai = 0
    /\ state = InitialState(NoPayload)
    /\ logs = <<>>
    /\ calls = <<>>
    /\ mcp = <<>>
    /\ attempt = 0
    /\ tried = <<>>
    /\ sleeps = <<>>
    /\ lastCall = NoCall
    /\ drawn = 0
    /\ error = "none"
    /\ raised = <<>>
    /\ persistCount = 0
    /\ persistOk = FALSE
    /\ persisted = <<>>
    /\ outcome = "running"
    /\ cancelling = FALSE
    /\ ctl = <<>>
    /\ frames = <<>>
    /\ rows = <<>>
    /\ alone = <<>>

IsSeqMode(mode) == mode \in {"deterministic", "human"}

\* variant: the protocol ends without recording the decision
RuleProtocol_no_record == <<"solution_evaluation", "escalation_decision">>

RuleProtocol == <<"solution_evaluation", "escalation_decision", "update_payload">>

Reverse(s) == [i \in 1..Len(s) |-> s[Len(s) + 1 - i]]

\* variant: a sequential stage iterates its abilities from the last one
StepList_reversed(stage) ==
    IF IsSeqMode(stage.mode) THEN Reverse(stage.abilities)
    ELSE IF stage.mode = "non-deterministic"
         THEN IF stage.exec_rule = "score_then_maybe_escalate"
              THEN RuleProtocol ELSE stage.abilities
         ELSE << >>

\* variant: under the rule the decision stage steps through the abilities it
\* declares
StepList_rule_declared(stage) ==
    IF IsSeqMode(stage.mode) \/ stage.mode = "non-deterministic"
    THEN stage.abilities
    ELSE << >>

\* variant: without a rule the decision stage leaves the escalation ability
\* out
StepList_fallback_no_escalation(stage) ==
    LET NotEscalation(name) == name # "escalation_decision"
    IN IF IsSeqMode(stage.mode) THEN stage.abilities
       ELSE IF stage.mode = "non-deterministic"
            THEN IF stage.exec_rule = "score_then_maybe_escalate"
                 THEN RuleProtocol ELSE SelectSeq(stage.abilities, NotEscalation)
            ELSE << >>

\* variant: a stage of an unknown mode is run like a sequential one
StepList_unknown_runs(stage) ==
    IF stage.mode = "non-deterministic"
    THEN IF stage.exec_rule = "score_then_maybe_escalate"
         THEN RuleProtocol ELSE stage.abilities
    ELSE stage.abilities

\* the abilities the engine steps through in a stage, in order
StepList(stage) ==
    IF IsSeqMode(stage.mode) THEN stage.abilities
    ELSE IF stage.mode = "non-deterministic"
         THEN IF stage.exec_rule = "score_then_maybe_escalate"
              THEN RuleProtocol ELSE stage.abilities
         ELSE << >>

\* variant: the threshold itself still escalates
ShouldEscalate_inclusive(st) == ScoreOr(st, 100) <= 90

\* the rule stage's test before the escalation step
ShouldEscalate(st) == ScoreOr(st, 100) < 90

\* keyword arguments built for a handler
ExtraFor(stage, name, input, simulated) ==
    IF IsSeqMode(stage.mode)
    THEN [ has_input |-> (name = "accept_payload"),
           input_payload |-> input,
           simulate_human_answer |-> IF name = "extract_answer" THEN simulated ELSE "None" ]
    ELSE NoExtra

\* log entries the engine appends for a handler's result
ResultLog(stage, name, res) ==
    IF IsSeqMode(stage.mode) THEN << <<"res", name, res>> >>
    ELSE IF stage.exec_rule = "score_then_maybe_escalate"
         THEN CASE name = "solution_evaluation" -> << <<"score", name, res>> >>
                [] name = "escalation_decision" -> << <<"escalation", name, res>> >>
                [] OTHER -> << >>
         ELSE << <<"fallback", name, res>> >>

\* variant: an unresolved name is passed over without a log entry
MissingLog_silent(seq, name, lg) == lg

\* the log after a lookup that found no handler: "!! missing impl <name>" in
\* a sequential or human stage; the fallback loop of a decision stage passes
\* over the name without logging
MissingLog(seq, name, lg) == IF seq THEN Append(lg, <<"missing", name, "">>) ELSE lg

\* variant: after the last stage the result is returned without persisting
NextPos_skip_persist(s, a, n, nstages) ==
    IF a < n THEN [pc |-> "ability", si |-> s, ai |-> a + 1]
    ELSE IF s < nstages THEN [pc |-> "stage", si |-> s + 1, ai |-> 0]
    ELSE [pc |-> "deliver", si |-> s + 1, ai |-> 0]

\* where control goes after step a of stage s, which has n steps
NextPos(s, a, n, nstages) ==
    IF a < n THEN [pc |-> "ability", si |-> s, ai |-> a + 1]
    ELSE IF s < nstages THEN [pc |-> "stage", si |-> s + 1, ai |-> 0]
    ELSE [pc |-> "persist", si |-> s + 1, ai |-> 0]

Goto(pos) == pc' = pos.pc /\ si' = pos.si /\ ai' = pos.ai

Advance == Goto(NextPos(si, ai, Len(StepList(stages[si])), Len(stages)))

\* variant: the except clause persists without logging the exception
Abort_unlogged(name, exc, lg) ==
    /\ raised' = <<si, name, exc>>
    /\ error' = exc
    /\ logs' = lg
    /\ pc' = "persist"
    /\ UNCHANGED << si, ai >>

\* variant: the exception is logged and the loop goes on
Abort_swallow(name, exc, lg) ==
    /\ raised' = <<si, name, exc>>
    /\ error' = error
    /\ logs' = Append(lg, <<"error", exc, "">>)
    /\ Advance

\* variant: the except clause starts the log over with the error entry
Abort_reset_log(name, exc, lg) ==
    /\ raised' = <<si, name, exc>>
    /\ error' = exc
    /\ logs' = << <<"error", exc, "">> >>
    /\ pc' = "persist"
    /\ UNCHANGED << si, ai >>

\* except Exception as e: logs.append(f"error: {e}"), then persist
Abort(name, exc, lg) ==
    /\ raised' = <<si, name, exc>>
    /\ error' = exc
    /\ logs' = Append(lg, <<"error", exc, "">>)
    /\ pc' = "persist"
    /\ UNCHANGED << si, ai >>

\* variant: an exception inside _persist_run reaches the caller
RunOutcome_masked(err, persist_ok) ==
    IF ~persist_ok THEN "PersistenceError"
    ELSE IF err = "none" THEN "returned" ELSE err

\* what run hands to its caller once _persist_run is over: the result, or
\* the exception caught earlier (an exception inside _persist_run was caught
\* there and plays no part)
RunOutcome(err, persist_ok) == IF err = "none" THEN "returned" ELSE err

\* agent.run(input_payload, simulate_human_answer) is called:
\* state = {"payload": dict(input_payload)}; logs = []
RunStart ==
    /\ pc = "idle"
    /\ \E prio \in Priorities, tid \in TicketIds, sim \in SimulatedAnswers :
         /\ input_payload' = [priority |-> prio, ticket_id |-> tid, status |-> "None"]
         /\ simulate_human_answer' = sim
         /\ state' = InitialState([priority |-> prio, ticket_id |-> tid, status |-> "None"])
    /\ logs' = <<>>
    /\ pc' = "stage"
    /\ si' = 1
    /\ ai' = 0
    /\ UNCHANGED << cfgVars, taskVars, concVars, calls, mcp, callVars, drawn, endVars >>

\* top of the stage loop: the stage marker, and the mode dispatch up to the
\* first ability (an unknown mode logs a warning and the stage is over)
StartStage ==
    /\ pc = "stage"
    /\ LET stage == stages[si]
           marker == Append(logs, <<"stage", stage.name, stage.mode>>)
       IN /\ logs' = IF IsSeqMode(stage.mode) \/ stage.mode = "non-deterministic"
                     THEN marker
                     ELSE Append(marker, <<"unknown_mode", stage.mode, "">>)
          /\ Goto(NextPos(si, 0, Len(StepList(stage)), Len(stages)))
    /\ UNCHANGED << cfgVars, taskVars, concVars, argVars, state, calls, mcp, callVars, drawn, endVars >>

\* one iteration over an ability of the current stage, up to the handler's
\* return or up to its capability call
StepAbility ==
    /\ pc = "ability"
    /\ LET stage == stages[si]
           name == StepList(stage)[ai]
           seq == IsSeqMode(stage.mode)
           rule == ~seq /\ stage.exec_rule = "score_then_maybe_escalate"
           extra == ExtraFor(stage, name, CallerDict(input_payload, state.payload),
                             simulate_human_answer)
           logs1 == IF seq THEN Append(logs, <<"ability", name, "">>) ELSE logs
       IN IF name \notin ABILITY_LOOKUP
          THEN \* sequential: "!! missing impl"; fallback: silently skipped
               /\ logs' = MissingLog(seq, name, logs1)
               /\ Advance
               /\ UNCHANGED << state, calls, mcp, callVars, drawn, error, raised >>
          ELSE IF rule /\ name = "escalation_decision" /\ ~ShouldEscalate(state)
          THEN /\ logs' = Append(logs1, <<"skip", name, "score >= 90, skipping escalation">>)
               /\ Advance
               /\ UNCHANGED << state, calls, mcp, callVars, drawn, error, raised >>
          ELSE /\ calls' = Append(calls, <<si, name>>)
               /\ IF NeedsCall(name, state, extra)
                  THEN /\ mcp' = Append(mcp, CallRequest(name, state))
                       /\ attempt' = 0
                       /\ logs' = logs1
                       /\ pc' = "call"
                       /\ UNCHANGED << si, ai, state, tried, sleeps, lastCall, drawn,
                                       error, raised >>
                  ELSE /\ \E jitter \in IF name = "solution_evaluation"
                                        THEN JitterLow..JitterHigh ELSE {0} :
                            LET r == RunLocal(name, state, extra, jitter)
                            IN /\ state' = r.state
                               /\ logs' = logs1 \o ResultLog(stage, name, r.res)
                               /\ drawn' = IF name = "solution_evaluation"
                                           THEN jitter ELSE drawn
                       /\ Advance
                       /\ UNCHANGED << mcp, callVars, error, raised >>
    /\ UNCHANGED << cfgVars, taskVars, concVars, argVars, persistCount, persistOk, persisted, outcome >>

\* one attempt of the capability call in flight, and what follows from it:
\* a sleep before the next attempt, the rest of the handler and the engine's
\* result log entry, or the exception reaching run's except clause
Attempt ==
    /\ pc = "call"
    /\ LET stage == stages[si]
           name == StepList(stage)[ai]
       IN \E o \in AttemptOutcomes(name) :
            LET k == attempt + 1
                d == CallStep(maxAttempts, k, o)
            IN /\ attempt' = IF d.kind = "retry" THEN k ELSE 0
               /\ CASE d.kind = "retry" ->
                         UNCHANGED << pc, si, ai, state, logs, error, raised >>
                    [] d.kind = "raise" ->
                         /\ Abort(name, d.exc, logs)
                         /\ UNCHANGED state
                    [] d.kind = "return" ->
                         LET r == AfterCall(name, state, d.body)
                         IN /\ state' = r.state
                            /\ IF r.exc # "none"
                               THEN Abort(name, r.exc, logs)
                               ELSE /\ logs' = logs \o ResultLog(stage, name, r.res)
                                    /\ Advance
                                    /\ UNCHANGED << error, raised >>
    /\ UNCHANGED << cfgVars, taskVars, concVars, argVars, calls, mcp, tried, sleeps, lastCall, drawn,
                    persistCount, persistOk, persisted, outcome >>

\* await self._persist_run(input_payload, state, logs): the commit succeeds,
\* or an exception is caught and logged inside _persist_run
PersistRun ==
    /\ pc = "persist"
    /\ persistCount' = persistCount + 1
    /\ \E ok \in BOOLEAN :
         /\ persistOk' = ok
         /\ persisted' = IF ok
                         THEN Append(persisted,
                                     [ ticket_id |->
                                           CallerDict(input_payload, state.payload).ticket_id,
                                       input_payload |->
                                           CallerDict(input_payload, state.payload),
                                       result_payload |-> state,
                                       logs |-> logs ])
                         ELSE persisted
    /\ pc' = "deliver"
    /\ UNCHANGED << cfgVars, taskVars, concVars, argVars, si, ai, state, logs, calls, mcp, callVars,
                    drawn, error, raised, outcome >>

\* _persist_run has returned: return {"final_payload": final, "logs": logs},
\* or the bare raise
Deliver ==
    /\ pc = "deliver"
    /\ ~cancelling
    /\ outcome' = RunOutcome(error, persistOk)
    /\ pc' = "done"
    /\ UNCHANGED << cfgVars, taskVars, concVars, argVars, si, ai, state, logs, calls, mcp, callVars,
                    drawn, error, raised, persistCount, persistOk, persisted >>

\* ------------------------------------------- the capability client alone
\* BaseMCPClient.call on its own: one call of some operation under some
\* retry settings, with the outcome of every attempt and every delay kept
CallOps == {"knowledge_base_search", "update_ticket"}

InitCall ==
    /\ stages = STAGE_CONFIG
    /\ maxAttempts \in 1..MaxRetryAttempts
    /\ baseWait \in 1..MaxBaseWait
    /\ input_payload = NoPayload
    /\ simulate_human_answer = "None"
    /\ pc = "call"
    /\ si = 0
    /\ ai = 0
    /\ state = InitialState(NoPayload)
    /\ logs = <<>>
    /\ calls = <<>>
    /\ \E op \in CallOps : mcp = << [op |-> op, args |-> << >>] >>
    /\ attempt = 0
    /\ tried = <<>>
    /\ sleeps = <<>>
    /\ lastCall = NoCall
    /\ drawn = 0
    /\ error = "none"
    /\ raised = <<>>
    /\ persistCount = 0
    /\ persistOk = FALSE
    /\ persisted = <<>>
    /\ outcome = "running"
    /\ cancelling = FALSE
    /\ ctl = <<>>
    /\ frames = <<>>
    /\ rows = <<>>
    /\ alone = <<>>

\* one pass of the "async for attempt in AsyncRetrying(...)" loop
CallAttempt ==
    /\ pc = "call"
    /\ LET op == mcp[1].op
       IN \E o \in AttemptOutcomes(op) :
            LET k == attempt + 1
                d == CallStep(maxAttempts, k, o)
            IN /\ attempt' = k
               /\ tried' = Append(tried, o)
               /\ lastCall' = CallEnd(op, k, d, lastCall)
               /\ sleeps' = IF d.kind = "retry"
                             THEN Append(sleeps, WaitExponential(baseWait, k))
                             ELSE sleeps
               /\ pc' = IF d.kind = "retry" THEN "call" ELSE "call_done"
    /\ UNCHANGED << cfgVars, taskVars, concVars, argVars, si, ai, state, logs, calls, mcp, drawn, endVars >>

NextCall == CallAttempt

SpecCall == InitCall /\ [][NextCall]_vars

\* ------------------------------------------- the scoring function alone
\* one evaluation of the scoring function on a state that holds some number
\* of knowledge-base hits (or no 'kb' key at all) and some priority, by the
\* service's handler (pc = "score") or by the standalone script's
\* (pc = "demo_score")
ScorePriorities == Priorities \cup {S_High, S_NORMAL}

ScoreInput(prio, has_kb, hits) ==
    [ InitialState([priority |-> prio, ticket_id |-> NoneStr, status |-> "None"])
        EXCEPT !.keys = IF has_kb THEN {"kb"} ELSE {},
               !.kb_hits = IF has_kb THEN hits ELSE 0 ]

InitScore ==
    /\ stages = STAGE_CONFIG
    /\ maxAttempts = RETRY_ATTEMPTS
    /\ baseWait = RETRY_WAIT_SECONDS
    /\ input_payload = NoPayload
    /\ simulate_human_answer = "None"
    /\ pc \in {"score", "demo_score"}
    /\ si = 0
    /\ ai = 0
    /\ \E prio \in ScorePriorities, has_kb \in BOOLEAN, hits \in 0..MaxScoreHits :
         state = ScoreInput(prio, has_kb, hits)
    /\ logs = <<>>
    /\ calls = <<>>
    /\ mcp = <<>>
    /\ attempt = 0
    /\ tried = <<>>
    /\ sleeps = <<>>
    /\ lastCall = NoCall
    /\ drawn = 0
    /\ error = "none"
    /\ raised = <<>>
    /\ persistCount = 0
    /\ persistOk = FALSE
    /\ persisted = <<>>
    /\ outcome = "running"
    /\ cancelling = FALSE
    /\ ctl = <<>>
    /\ frames = <<>>
    /\ rows = <<>>
    /\ alone = <<>>

\* await solution_evaluation(state)
ScoreStep ==
    /\ pc = "score"
    /\ \E jitter \in JitterLow..JitterHigh :
         /\ state' = solution_evaluation(state, jitter).state
         /\ drawn' = jitter
    /\ calls' = Append(calls, <<0, "solution_evaluation">>)
    /\ pc' = "score_done"
    /\ UNCHANGED << cfgVars, taskVars, concVars, argVars, si, ai, logs, mcp, callVars, endVars >>

\* ability_solution_evaluation(state), which ends with
\* state.log(f"[DECIDE] solution_evaluation: score={score}"): AgentState.log
\* appends the message to the state's log list
DemoScoreStep ==
    /\ pc = "demo_score"
    /\ \E jitter \in DemoJitterLow..DemoJitterHigh :
         LET r == ability_solution_evaluation(state, jitter)
         IN /\ state' = r.state
            /\ logs' = Append(logs, <<"log", "[DECIDE] solution_evaluation", r.res>>)
            /\ drawn' = jitter
    /\ calls' = Append(calls, <<0, "ability_solution_evaluation">>)
    /\ pc' = "demo_score_done"
    /\ UNCHANGED << cfgVars, taskVars, concVars, argVars, si, ai, mcp, callVars, endVars >>

NextScore == ScoreStep \/ DemoScoreStep

SpecScore == InitScore /\ [][NextScore]_vars

Next == RunStart \/ StartStage \/ StepAbility \/ Attempt \/ PersistRun \/ Deliver

Spec == Init /\ [][Next]_vars

\* a run none of whose steps is held up for ever: every attempt of a
\* capability call and the commit of _persist_run come to an end (with a
\* response or with an exception), and the code between two awaits runs on
SpecFair == Init /\ [][Next]_vars /\ WF_vars(Next)

\* ------------------------------------------- the default pipeline by priority
\* a run of the default pipeline on a priority that is any letter-case
\* spelling of "high", another word, the empty string or absent
HighSpellings ==
    { << a, b, c, d >> : a \in {"h", "H"}, b \in {"i", "I"}, c \in {"g", "G"},
                         d \in {"h", "H"} }

PriorityInputs == HighSpellings \cup {NoneStr, << >>, S_low, S_NORMAL}

InitPriority == Init /\ stages = STAGE_CONFIG

RunStartPriority ==
    /\ pc = "idle"
    /\ \E prio \in PriorityInputs :
         /\ input_payload' = [priority |-> prio, ticket_id |-> S_tckt1, status |-> "None"]
         /\ state' = InitialState([priority |-> prio, ticket_id |-> S_tckt1,
                                   status |-> "None"])
    /\ simulate_human_answer' = "INV-9876, check billing cycle"
    /\ logs' = <<>>
    /\ pc' = "stage"
    /\ si' = 1
    /\ ai' = 0
    /\ UNCHANGED << cfgVars, taskVars, concVars, calls, mcp, callVars, drawn, endVars >>

NextPriority ==
    RunStartPriority \/ StartStage \/ StepAbility \/ Attempt \/ PersistRun \/ Deliver

SpecPriority == InitPriority /\ [][NextPriority]_vars

\* ------------------------------------------------------ a run cancelled
\* the task running run() is cancelled: asyncio.CancelledError is raised at
\* the await the run is suspended in. CancelledError derives from
\* BaseException, so neither "except Exception" in run nor the one in
\* _persist_run catches it, and the retry predicate does not match it: it
\* reaches the caller of run as it is.
\* Suspended in a capability call (the post or the sleep between attempts):
CancelInCall ==
    /\ pc = "call"
    /\ raised' = <<si, StepList(stages[si])[ai], "CancelledError">>
    /\ outcome' = "CancelledError"
    /\ attempt' = 0
    /\ pc' = "done"
    /\ UNCHANGED << cfgVars, taskVars, concVars, argVars, si, ai, state, logs, calls, mcp, tried, sleeps,
                    lastCall, drawn, error, persistCount, persistOk, persisted >>

\* Suspended in the commit of _persist_run: await session.commit() is
\* abandoned whatever the database has done with it, so the row is there if
\* the commit was applied before the cancellation reached the run, and is
\* not if it was not. The CancelledError then passes the exit of
\* "async with AsyncSessionLocal()", which awaits the close of the session:
\* the run is suspended once more before the exception leaves it
CancelInPersist ==
    /\ pc = "persist"
    /\ persistCount' = persistCount + 1
    /\ \E applied \in BOOLEAN :
         /\ persistOk' = applied
         /\ persisted' = IF applied
                         THEN Append(persisted,
                                     [ ticket_id |->
                                           CallerDict(input_payload, state.payload).ticket_id,
                                       input_payload |->
                                           CallerDict(input_payload, state.payload),
                                       result_payload |-> state,
                                       logs |-> logs ])
                         ELSE persisted
    /\ cancelling' = TRUE
    /\ pc' = "deliver"
    /\ UNCHANGED << cfgVars, concVars, argVars, si, ai, state, logs, calls, mcp, callVars, drawn,
                    error, raised, outcome >>

\* the close of the session is over. If it went through, the CancelledError
\* raised in the commit goes on: "except Exception" in _persist_run does not
\* catch it, nor does the one in run, and it reaches the caller of run. If
\* the close raised an exception of its own, that exception takes the place
\* of the CancelledError, "except Exception" in _persist_run catches and
\* logs it, _persist_run returns, and run goes on to its return or to the
\* bare raise of the exception it had caught: the cancellation is lost
LeaveCancelled ==
    /\ pc = "deliver"
    /\ cancelling
    /\ \E closed \in BOOLEAN :
         /\ cancelling' = closed
         /\ outcome' = IF closed THEN "CancelledError" ELSE RunOutcome(error, persistOk)
    /\ pc' = "done"
    /\ UNCHANGED << cfgVars, concVars, argVars, si, ai, state, logs, calls, mcp,
                    callVars, drawn, error, raised, persistCount, persistOk, persisted >>

\* Suspended in the exit of "async with AsyncSessionLocal()", after the
\* commit was answered, has raised or was cancelled: the close of the
\* session is abandoned, _persist_run and run are left with CancelledError,
\* and what the commit did stays as it is
CancelInClose ==
    /\ pc = "deliver"
    /\ outcome' = "CancelledError"
    /\ pc' = "done"
    /\ UNCHANGED << cfgVars, taskVars, concVars, argVars, si, ai, state, logs, calls, mcp, callVars, drawn,
                    error, raised, persistCount, persistOk, persisted >>

NextCancel ==
    \/ RunStart \/ StartStage \/ StepAbility \/ Attempt \/ PersistRun \/ Deliver
    \/ CancelInCall \/ CancelInPersist \/ LeaveCancelled \/ CancelInClose

SpecCancel == Init /\ [][NextCancel]_vars

\* ------------------------------------------------- several runs at once
\* One call of run as a record: its position, what it has caught and
\* delivered, the responses its capability calls have received so far (hist),
\* and its two locals, the state dict and the log list. StepWith gives the
\* record one step of run leads to; it is run's code once more, on a record
\* instead of the variables of Spec.
StartRec(input) ==
    [ pc |-> "stage", si |-> 1, ai |-> 0, attempt |-> 0, error |-> "none",
      outcome |-> "running", persistCount |-> 0, persistOk |-> FALSE, hist |-> <<>>,
      state |-> InitialState(input), logs |-> <<>> ]

IdleRec == [StartRec(NoPayload) EXCEPT !.pc = "idle", !.si = 0]

AdvanceRec(rec, stgs) ==
    LET pos == NextPos(rec.si, rec.ai, Len(StepList(stgs[rec.si])), Len(stgs))
    IN [rec EXCEPT !.pc = pos.pc, !.si = pos.si, !.ai = pos.ai]

\* except Exception as e: logs.append(f"error: {e}"), then persist
AbortRec(rec, exc) ==
    [rec EXCEPT !.error = exc, !.logs = Append(@, <<"error", exc, "">>), !.pc = "persist"]

\* the stage marker and the mode dispatch
StartStageRec(rec, stgs) ==
    LET stage == stgs[rec.si]
        marker == Append(rec.logs, <<"stage", stage.name, stage.mode>>)
        pos == NextPos(rec.si, 0, Len(StepList(stage)), Len(stgs))
    IN [rec EXCEPT !.logs = IF IsSeqMode(stage.mode) \/ stage.mode = "non-deterministic"
                            THEN marker
                            ELSE Append(marker, <<"unknown_mode", stage.mode, "">>),
                   !.pc = pos.pc, !.si = pos.si, !.ai = pos.ai]

\* one iteration over an ability, up to the handler's return or its call
StepAbilityRec(rec, stgs, input, sim, jitter) ==
    LET stage == stgs[rec.si]
        name == StepList(stage)[rec.ai]
        seq == IsSeqMode(stage.mode)
        rule == ~seq /\ stage.exec_rule = "score_then_maybe_escalate"
        extra == ExtraFor(stage, name, input, sim)
        logs1 == IF seq THEN Append(rec.logs, <<"ability", name, "">>) ELSE rec.logs
    IN IF name \notin ABILITY_LOOKUP
       THEN [AdvanceRec(rec, stgs) EXCEPT !.logs = MissingLog(seq, name, logs1)]
       ELSE IF rule /\ name = "escalation_decision" /\ ~ShouldEscalate(rec.state)
       THEN [AdvanceRec(rec, stgs) EXCEPT
               !.logs = Append(logs1, <<"skip", name, "score >= 90, skipping escalation">>)]
       ELSE IF NeedsCall(name, rec.state, extra)
       THEN [rec EXCEPT !.pc = "call", !.attempt = 0, !.logs = logs1]
       ELSE LET r == RunLocal(name, rec.state, extra, jitter)
            IN [AdvanceRec(rec, stgs) EXCEPT
                  !.state = r.state, !.logs = logs1 \o ResultLog(stage, name, r.res)]

\* one attempt of the call in flight, answered by o
AttemptRec(rec, stgs, o) ==
    LET stage == stgs[rec.si]
        name == StepList(stage)[rec.ai]
        k == rec.attempt + 1
        d == CallStep(RETRY_ATTEMPTS, k, o)
        got == [rec EXCEPT !.hist = Append(@, o)]
    IN CASE d.kind = "retry" -> [got EXCEPT !.attempt = k]
         [] d.kind = "raise" -> [AbortRec(got, d.exc) EXCEPT !.attempt = 0]
         [] d.kind = "return" ->
              LET r == AfterCall(name, rec.state, d.body)
              IN IF r.exc # "none"
                 THEN [AbortRec(got, r.exc) EXCEPT !.attempt = 0, !.state = r.state]
                 ELSE [AdvanceRec(got, stgs) EXCEPT
                         !.attempt = 0, !.state = r.state,
                         !.logs = rec.logs \o ResultLog(stage, name, r.res)]

\* what a step of run depends on besides the record: the response to the
\* attempt it makes (o), whether the commit of the run record succeeds (ok),
\* the value random.randint returns (jitter)
NoOutcome == [transport |-> FALSE, status |-> 0, json |-> "none", hits |-> 0]
Choice(o, ok, jitter) == [o |-> o, ok |-> ok, jitter |-> jitter]

Choices(rec, stgs, outs, jitters) ==
    CASE rec.pc = "call" ->
            { Choice(o, FALSE, 0) : o \in outs[StepList(stgs[rec.si])[rec.ai]] }
      [] rec.pc = "persist" -> { Choice(NoOutcome, ok, 0) : ok \in BOOLEAN }
      [] rec.pc = "ability" /\ StepList(stgs[rec.si])[rec.ai] = "solution_evaluation" ->
            { Choice(NoOutcome, FALSE, jitter) : jitter \in jitters }
      [] rec.pc \in {"idle", "stage", "ability", "deliver"} -> { Choice(NoOutcome, FALSE, 0) }
      [] OTHER -> {}

\* the record one step of run leads to under choice c
StepWith(rec, stgs, input, sim, c) ==
    CASE rec.pc = "idle" -> StartRec(input)
      [] rec.pc = "stage" -> StartStageRec(rec, stgs)
      [] rec.pc = "ability" -> StepAbilityRec(rec, stgs, input, sim, c.jitter)
      [] rec.pc = "call" -> AttemptRec(rec, stgs, c.o)
      [] rec.pc = "persist" ->
            [rec EXCEPT !.persistCount = @ + 1, !.persistOk = c.ok, !.pc = "deliver"]
      [] rec.pc = "deliver" ->
            [rec EXCEPT !.outcome = RunOutcome(rec.error, rec.persistOk), !.pc = "done"]
      [] OTHER -> rec

\* the runs, their inputs, the engine's stage list and the responses the
\* service gives to an attempt: a transport failure, a 200 with the expected
\* fields, or a 200 whose body is not an object
RunIds == 1..NumRuns

ConcStages ==
    << Stage("PREPARE", "deterministic",
             <<"normalize_fields", "enrich_records", "add_flags_calculations">>, "None"),
       Stage("COMPLETE", "deterministic", <<"output_payload">>, "None") >>

ConcInput(r) ==
    IF r % 2 = 1 THEN [priority |-> S_high, ticket_id |-> S_tckt1, status |-> "None"]
    ELSE [priority |-> S_low, ticket_id |-> NoneStr, status |-> "None"]

ConcOutcomes(op) ==
    { o \in AttemptOutcomes(op) :
        \/ o.transport
        \/ o.status = 200 /\ o.json \in {"fields", "nonobject"} /\ o.hits = 0 }

ConcOutcomesBy == [op \in ABILITY_LOOKUP |-> ConcOutcomes(op)]

\* variant: the state dict and the log list are kept on the engine, one
\* pair for all calls of run
Frame_shared(r) == 1

\* the state dict and the log list a call of run works on: the pair that
\* call created (state = {"payload": dict(input_payload)}; logs = [])
Frame(r) == r

CtlFields == {"pc", "si", "ai", "attempt", "error", "outcome", "persistCount",
              "persistOk", "hist"}
CtlOf(rec) == [f \in CtlFields |-> rec[f]]
FrameOf(rec) == [state |-> rec.state, logs |-> rec.logs]

\* run r as the record it currently is: its control and the pair it works on
RunRec(r) == ctl[r] @@ frames[Frame(r)]

runVars == << stages, maxAttempts, baseWait, input_payload, simulate_human_answer,
              pc, si, ai, state, logs, calls, mcp, attempt, tried, sleeps, lastCall,
              drawn, error, raised, persistCount, persistOk, persisted, outcome,
              cancelling >>

InitConc ==
    /\ stages = ConcStages
    /\ maxAttempts = RETRY_ATTEMPTS
    /\ baseWait = RETRY_WAIT_SECONDS
    /\ input_payload = NoPayload
    /\ simulate_human_answer = "None"
    /\ pc = "conc"
    /\ si = 0
    /\ ai = 0
    /\ state = InitialState(NoPayload)
    /\ logs = <<>>
    /\ calls = <<>>
    /\ mcp = <<>>
    /\ attempt = 0
    /\ tried = <<>>
    /\ sleeps = <<>>
    /\ lastCall = NoCall
    /\ drawn = 0
    /\ error = "none"
    /\ raised = <<>>
    /\ persistCount = 0
    /\ persistOk = FALSE
    /\ persisted = <<>>
    /\ outcome = "running"
    /\ cancelling = FALSE
    /\ ctl = [r \in RunIds |-> CtlOf(IdleRec)]
    /\ frames = [r \in RunIds |-> FrameOf(IdleRec)]
    /\ rows = <<>>
    /\ alone = [r \in RunIds |-> IdleRec]

\* run r takes its next step: from its start or from the suspension point
\* it is in up to the next one, or to its end
ConcStep(r) ==
    /\ LET cur == RunRec(r)
       IN \E c \in Choices(cur, stages, ConcOutcomesBy, {0}) :
            LET nxt == StepWith(cur, stages, ConcInput(r), "None", c)
            IN /\ ctl' = [ctl EXCEPT ![r] = CtlOf(nxt)]
               /\ frames' = [frames EXCEPT ![Frame(r)] = FrameOf(nxt)]
               /\ rows' = IF cur.pc = "persist" /\ nxt.persistOk
                          THEN Append(rows, [ run |-> r,
                                              ticket_id |-> ConcInput(r).ticket_id,
                                              input_payload |-> ConcInput(r),
                                              result_payload |-> cur.state,
                                              logs |-> cur.logs ])
                          ELSE rows
               /\ alone' = [alone EXCEPT ![r] = StepWith(@, stages, ConcInput(r), "None", c)]
    /\ UNCHANGED runVars

NextConc == \E r \in RunIds : ConcStep(r)

SpecConc == InitConc /\ [][NextConc]_vars

\* ------------------------------------------- a run and its responses
\* One run of the stages from the knowledge-base search to the ticket update,
\* as a record that keeps every response its capability calls received
\* (StepWith, as above), on an input with priority "low". The service
\* answers an attempt with a transport failure, with a 200 and the expected
\* fields (the most hits for a search), or with a 404 and an error document.
TicketStages ==
    << Stage("RETRIEVE", "deterministic", <<"knowledge_base_search", "store_data">>, "None"),
       Stage("DECIDE", "non-deterministic",
             <<"solution_evaluation", "escalation_decision", "update_payload">>,
             "score_then_maybe_escalate"),
       Stage("UPDATE", "deterministic", <<"update_ticket", "close_ticket">>, "None") >>

TicketInput == [priority |-> S_low, ticket_id |-> S_tckt1, status |-> "None"]

TicketOutcomes(op) ==
    { o \in AttemptOutcomes(op) :
        \/ o.transport
        \/ /\ o.status = 200 /\ o.json = "fields"
           /\ o.hits = IF op = "knowledge_base_search" THEN MaxKbHits ELSE 0
        \/ o.status = 404 /\ o.json = "nofields" }

TicketOutcomesBy == [op \in ABILITY_LOOKUP |-> TicketOutcomes(op)]

InitTicket ==
    /\ stages = TicketStages
    /\ maxAttempts = RETRY_ATTEMPTS
    /\ baseWait = RETRY_WAIT_SECONDS
    /\ input_payload = NoPayload
    /\ simulate_human_answer = "None"
    /\ pc = "ticket"
    /\ si = 0
    /\ ai = 0
    /\ state = InitialState(NoPayload)
    /\ logs = <<>>
    /\ calls = <<>>
    /\ mcp = <<>>
    /\ attempt = 0
    /\ tried = <<>>
    /\ sleeps = <<>>
    /\ lastCall = NoCall
    /\ drawn = 0
    /\ error = "none"
    /\ raised = <<>>
    /\ persistCount = 0
    /\ persistOk = FALSE
    /\ persisted = <<>>
    /\ outcome = "running"
    /\ cancelling = FALSE
    /\ ctl = << CtlOf(IdleRec) >>
    /\ frames = << FrameOf(IdleRec) >>
    /\ rows = <<>>
    /\ alone = <<>>

\* the run takes its next step
TicketStep ==
    /\ LET cur == ctl[1] @@ frames[1]
       IN \E c \in Choices(cur, stages, TicketOutcomesBy, JitterLow..JitterHigh) :
            LET nxt == StepWith(cur, stages, TicketInput, "None", c)
            IN /\ ctl' = [ctl EXCEPT ![1] = CtlOf(nxt)]
               /\ frames' = [frames EXCEPT ![1] = FrameOf(nxt)]
               /\ rows' = IF cur.pc = "persist" /\ nxt.persistOk
                          THEN Append(rows, [ run |-> 1,
                                              ticket_id |-> TicketInput.ticket_id,
                                              input_payload |-> TicketInput,
                                              result_payload |-> cur.state,
                                              logs |-> cur.logs ])
                          ELSE rows
    /\ UNCHANGED << runVars, alone >>

NextTicket == TicketStep

SpecTicket == InitTicket /\ [][NextTicket]_vars

TypeOK ==
    /\ pc \in {"idle", "stage", "ability", "call", "call_done", "persist", "deliver", "done",
              "score", "score_done", "demo_score", "demo_score_done", "conc", "ticket"}
    /\ drawn \in DemoJitterLow..DemoJitterHigh
    /\ outcome \in {"running", "returned", "TransportError", "MCPClientError", "JSONDecodeError",
                   "AttributeError", "CancelledError"}
    /\ attempt \in 0..MaxRetryAttempts
    /\ persistCount \in 0..1
    /\ cancelling \in BOOLEAN

\* =================================================================== claims
\* ------------------------------------------------------- reading histories
InRegistry(name) == name \in ABILITY_LOOKUP

IsRuleStage(stage) ==
    stage.mode = "non-deterministic" /\ stage.exec_rule = "score_then_maybe_escalate"

\* names of the handlers invoked while stage s was current, in call order
CallsOfStage(s) ==
    LET InStage(c) == c[1] = s
        sel == SelectSeq(calls, InStage)
    IN [i \in 1..Len(sel) |-> sel[i][2]]

\* number of invocations of handler name while stage s was current
CallCount(s, name) == Cardinality({i \in 1..Len(calls) : calls[i] = <<s, name>>})

IsPrefix(a, b) == Len(a) <= Len(b) /\ \A i \in 1..Len(a) : a[i] = b[i]

\* the stage markers in the log, in log order
IsMarker(e) == e[1] = "stage"
MarkerSeq == SelectSeq(logs, IsMarker)

\* the number of stage markers logged up to position i: the index of the
\* stage that was current when entry i was appended
StageOfEntry(i) == Cardinality({j \in 1..i : logs[j][1] = "stage"})

\* an entry of this kind and name was logged while stage s was current
HasEntry(s, kind, name) ==
    \E i \in 1..Len(logs) : logs[i][1] = kind /\ logs[i][2] = name /\ StageOfEntry(i) = s

\* stage s has been left by the normal path
StageCompleted(s) == si > s

\* ------------------------------------------------------------------- C1
\* C1: in every sequential ('deterministic') or human stage the handlers
\* invoked are the stage's resolved abilities in declared order (a prefix of
\* them while the stage is running or after it failed, all of them once the
\* stage is completed), handler invocations are ordered by stage index, and
\* the k-th stage marker logged is that of the k-th stage of the list; this
\* holds for every permutation of the declared abilities.
C1_DeclaredOrder ==
    /\ \A i \in 1..(Len(calls) - 1) : calls[i][1] <= calls[i + 1][1]
    /\ Len(MarkerSeq) <= Len(stages)
    /\ \A k \in 1..Len(MarkerSeq) : MarkerSeq[k] = <<"stage", stages[k].name, stages[k].mode>>
    /\ \A i \in 1..Len(calls) : calls[i][1] <= Min(si, Len(stages))
    /\ \A s \in 1..Min(si, Len(stages)) :
         IsSeqMode(stages[s].mode) =>
            LET declared == SelectSeq(stages[s].abilities, InRegistry)
                observed == CallsOfStage(s)
            IN /\ IsPrefix(observed, declared)
               /\ StageCompleted(s) => observed = declared

\* a run of a stage list whose first stage declares the PREPARE abilities in
\* reverse order has completed that stage, invoking them in reverse order
C1_Witness ==
    /\ stages[1].abilities = <<"add_flags_calculations", "enrich_records", "normalize_fields">>
    /\ stages[1].mode = "human"
    /\ StageCompleted(1)
    /\ CallsOfStage(1) = <<"add_flags_calculations", "enrich_records", "normalize_fields">>

\* ------------------------------------------------------------------- C2
\* C2: in a decision stage with rule score_then_maybe_escalate the
\* escalation ability is invoked only with a stored score below 90, the
\* 'skipping escalation' entry is logged only with a stored score of 90 or
\* more and without the escalation ability being invoked, and once the stage
\* is past its escalation step exactly one of the two has happened.
C2_EscalateIffBelow90 ==
    \A s \in 1..Len(stages) :
        IsRuleStage(stages[s]) =>
            LET escalated == CallCount(s, "escalation_decision") > 0
                skipped == HasEntry(s, "skip", "escalation_decision")
            IN /\ escalated => state.has_score /\ state.score < 90
               /\ skipped => state.has_score /\ state.score >= 90 /\ ~escalated
               /\ (StageCompleted(s) \/ (si = s /\ ai = 3)) =>
                     /\ escalated <=> state.score < 90
                     /\ skipped <=> state.score >= 90

\* a run of the default pipeline has completed DECIDE with a score of exactly
\* 90: escalation was skipped and the entry logged
C2_Witness ==
    /\ stages = STAGE_CONFIG
    /\ StageCompleted(7)
    /\ state.score = 90
    /\ CallCount(7, "escalation_decision") = 0
    /\ HasEntry(7, "skip", "escalation_decision")

\* ------------------------------------------------------------------- C3
\* C3 (as claimed): in every finished run that has executed the decision
\* stage with rule score_then_maybe_escalate, update_payload was invoked
\* exactly once in that stage and exactly one audit entry was appended.
C3_Original ==
    \A s \in 1..Len(stages) :
        (IsRuleStage(stages[s]) /\ pc = "done" /\ CallCount(s, "solution_evaluation") > 0) =>
            /\ CallCount(s, "update_payload") = 1
            /\ Len(state.audit) = 1

\* C3 (amended): update_payload is never invoked more than once in a decision
\* stage with rule score_then_maybe_escalate, and in every run that has
\* completed that stage, on the escalate branch as on the skip branch, it was
\* invoked exactly once and exactly one audit entry was appended; in a run
\* whose escalation ability raised in that stage, update_payload was not
\* invoked and no audit entry was appended.
C3_RecordedOncePerCompletedStage ==
    \A s \in 1..Len(stages) :
        IsRuleStage(stages[s]) =>
            /\ CallCount(s, "update_payload") <= 1
            /\ Len(state.audit) = CallCount(s, "update_payload")
            /\ StageCompleted(s) =>
                  /\ CallCount(s, "update_payload") = 1
                  /\ Len(state.audit) = 1
            /\ (raised # <<>> /\ raised[1] = s /\ raised[2] = "escalation_decision") =>
                  /\ CallCount(s, "update_payload") = 0
                  /\ Len(state.audit) = 0

\* a run has completed the decision stage through the escalate branch with
\* one update_payload invocation and one audit entry
C3_Witness ==
    \E s \in 1..Len(stages) :
        /\ IsRuleStage(stages[s])
        /\ StageCompleted(s)
        /\ CallCount(s, "escalation_decision") = 1
        /\ state.escalated_to = "agent-7"
        /\ CallCount(s, "update_payload") = 1
        /\ Len(state.audit) = 1

\* ------------------------------------------------------------------- C4
\* C4: once a handler invocation has raised, that invocation stays the last
\* handler invocation of the run (no later ability of the stage, no later
\* stage), the marker of the failing stage stays the last stage marker, and
\* the caller receives nothing but that same exception, and receives it
\* only after the one invocation of _persist_run is over.
C4_AbortStopsRun ==
    /\ raised # <<>> =>
          /\ error = raised[3]
          /\ calls # <<>> /\ calls[Len(calls)] = <<raised[1], raised[2]>>
          /\ Len(MarkerSeq) = raised[1]
          /\ outcome \in {"running", raised[3]}
          /\ outcome = raised[3] => (persistCount = 1 /\ pc = "done")
    /\ outcome \notin {"running", "returned"} => raised # <<>>

\* a run of the default pipeline in which enrich_records (second of three
\* abilities of the third of eleven stages) raised has delivered the
\* exception to the caller
C4_Witness ==
    /\ stages = STAGE_CONFIG
    /\ raised = <<3, "enrich_records", "TransportError">>
    /\ outcome = "TransportError"
    /\ pc = "done"

\* ------------------------------------------------------------------- C5
\* C5: _persist_run is invoked at most once, it is invoked only from the
\* position after the stage loop or the except clause, after it has been
\* invoked no handler is invoked and no capability call is issued or
\* attempted, and the caller receives the result or the exception only when
\* it has been invoked exactly once; every finished run has invoked it once.
C5_PersistOnce ==
    /\ [](persistCount <= 1 /\ (outcome # "running" => persistCount = 1)
          /\ (pc = "done" => persistCount = 1))
    /\ [][ /\ persistCount' # persistCount => (persistCount = 0 /\ pc = "persist")
           /\ persistCount >= 1 => (calls' = calls /\ mcp' = mcp /\ attempt' = attempt
                                    /\ state' = state)
           /\ outcome' # outcome => (persistCount = 1 /\ pc = "deliver") ]_vars

\* an aborted run and its single _persist_run invocation: the run failed in
\* the last stage's predecessor and is finished
C5_Witness ==
    /\ pc = "done"
    /\ persistCount = 1
    /\ raised # <<>>
    /\ raised[2] = "trigger_notifications"
    /\ Len(calls) = 19

\* ------------------------------------------------------------------- C6
\* C6: in a finished run whose _persist_run failed, the caller has received
\* the result if no handler raised, and the handler's own exception if one
\* did; nothing was committed.
C6_PersistFailureHarmless ==
    (pc = "done" /\ ~persistOk) =>
        /\ outcome = IF raised = <<>> THEN "returned" ELSE raised[3]
        /\ persisted = <<>>

\* a run of the default pipeline completed all eleven stages, its
\* _persist_run failed, and the caller received the result
C6_Witness ==
    /\ stages = STAGE_CONFIG
    /\ pc = "done"
    /\ ~persistOk
    /\ si = Len(stages) + 1
    /\ outcome = "returned"

\* ------------------------------------------------------------------- C7
IsTransient(o) == o.transport
IsSuccess(o) == ~o.transport /\ o.status = 200 /\ o.json # "malformed"
IsServerError(o) == ~o.transport /\ o.status >= 500
IsNonRetryable(o) ==
    /\ ~o.transport
    /\ \/ (o.status >= 400 /\ o.status < 500)
       \/ (o.status < 500 /\ o.json = "malformed")

\* C7 (as claimed): a call all of whose attempts failed at transport level
\* has made exactly maxAttempts attempts and ended by raising MCPClientError.
C7_Original ==
    (pc = "call_done" /\ \A i \in 1..Len(tried) : IsTransient(tried[i])) =>
        /\ Len(tried) = maxAttempts
        /\ lastCall.result = "raised"
        /\ lastCall.exc = "MCPClientError"

\* ------------------------------------------------------------------- C8
\* C8: with maxAttempts >= 2, after a first attempt that failed at transport
\* level the call is still in progress, and a call whose first attempt
\* failed at transport level and whose second attempt succeeded has ended
\* after exactly 2 attempts by returning the second attempt's body, with no
\* exception.
C8_RetryThenSuccess ==
    /\ (maxAttempts >= 2 /\ Len(tried) = 1 /\ IsTransient(tried[1])) =>
          (pc = "call" /\ lastCall.result = "none")
    /\ (Len(tried) >= 2 /\ IsTransient(tried[1]) /\ IsSuccess(tried[2])) =>
          /\ pc = "call_done"
          /\ Len(tried) = 2 /\ attempt = 2
          /\ lastCall.result = "returned"
          /\ lastCall.exc = "none"
          /\ lastCall.body = [object |-> (tried[2].json # "nonobject"),
                               fields |-> (tried[2].json = "fields"), hits |-> tried[2].hits]

\* a knowledge-base search failed once at transport level and then returned
\* a body with two hits
C8_Witness ==
    /\ pc = "call_done"
    /\ Len(tried) = 2
    /\ IsTransient(tried[1])
    /\ IsSuccess(tried[2])
    /\ tried[2].hits = 2
    /\ lastCall.body = [object |-> TRUE, fields |-> TRUE, hits |-> 2]

\* ------------------------------------------------------------------- C9
\* C9 (as claimed): after an attempt that produced a 5xx response, with
\* attempts remaining, the call is still in progress (it will make another
\* attempt).
C9_Original ==
    (tried # <<>> /\ IsServerError(tried[Len(tried)]) /\ Len(tried) < maxAttempts) =>
        pc = "call"

\* ------------------------------------------------------------------ C10
\* C10 (as claimed): a call whose first attempt produced a 4xx response or a
\* malformed body has ended after exactly one attempt by raising.
C10_Original ==
    (tried # <<>> /\ IsNonRetryable(tried[1])) =>
        /\ pc = "call_done"
        /\ Len(tried) = 1
        /\ lastCall.result = "raised"

\* ------------------------------------------------------------------ C11
\* C11 (as claimed): the delay slept after attempt k has failed with retries
\* remaining is min(MaxWaitSeconds, baseWait * 2^(k-1)).
C11_Original ==
    \A k \in 1..Len(sleeps) : sleeps[k] = Min(MaxWaitSeconds, baseWait * 2 ^ (k - 1))

\* ------------------------------------------------------------------ C12
\* the positions of stage s whose ability name has no handler
MissingAt(s) ==
    {a \in 1..Len(stages[s].abilities) : stages[s].abilities[a] \notin ABILITY_LOOKUP}

\* the run is past position a of stage s
PastStep(s, a) == StageCompleted(s) \/ (si = s /\ ai > a)

\* C12: in a sequential or human stage a name without a handler raises
\* nothing (no exception ever originates from it and it is never invoked);
\* once the run is past it, the stage's log holds a missing-implementation
\* entry naming it; and a finished run in which no handler raised has
\* invoked every resolved ability of every such stage, has gone through all
\* stages and has returned its result.
C12_MissingIsNonFatal ==
    /\ raised # <<>> => raised[2] \in ABILITY_LOOKUP
    /\ \A i \in 1..Len(calls) : calls[i][2] \in ABILITY_LOOKUP
    /\ \A s \in 1..Min(si, Len(stages)) :
         IsSeqMode(stages[s].mode) =>
            \A a \in MissingAt(s) :
                PastStep(s, a) => HasEntry(s, "missing", stages[s].abilities[a])
    /\ (pc = "done" /\ raised = <<>>) =>
          /\ si = Len(stages) + 1
          /\ outcome = "returned"
          /\ Len(MarkerSeq) = Len(stages)
          /\ \A s \in 1..Len(stages) :
               IsSeqMode(stages[s].mode) =>
                  CallsOfStage(s) = SelectSeq(stages[s].abilities, InRegistry)

\* a run of a human stage that declares no_such_ability between
\* normalize_fields and enrich_records has finished: the entry was logged,
\* both other abilities and the later stage's ability were invoked, and the
\* caller received the result
C12_Witness ==
    /\ stages \in MissingStages
    /\ stages[1].mode = "human"
    /\ pc = "done"
    /\ outcome = "returned"
    /\ HasEntry(1, "missing", "no_such_ability")
    /\ CallsOfStage(1) = <<"normalize_fields", "enrich_records">>
    /\ CallsOfStage(2) = <<"output_payload">>

\* ------------------------------------------------------------------ C13
\* the declared ability names of stage s that have no handler
MissingNames(s) ==
    {stages[s].abilities[a] : a \in MissingAt(s)}

\* C13 (as claimed): a completed decision-mode stage that declares an
\* ability name without a handler has logged an entry naming it.
C13_Original ==
    \A s \in 1..Min(si, Len(stages)) :
        (stages[s].mode = "non-deterministic" /\ StageCompleted(s)) =>
            \A name \in MissingNames(s) :
                \E i \in 1..Len(logs) : logs[i][2] = name /\ StageOfEntry(i) = s

\* ------------------------------------------------------------------ C14
\* C14 (as claimed): in a run that was given a simulated human answer (any
\* string, None being the absence of one), no capability call is issued for
\* extract_answer, every answer in the answers list is the given value, and
\* every result extract_answer returned is the given value.
C14_Original ==
    (pc # "idle" /\ simulate_human_answer # "None") =>
        /\ \A i \in 1..Len(mcp) : mcp[i].op # "extract_answer"
        /\ \A i \in 1..Len(state.answers) : state.answers[i] = simulate_human_answer
        /\ \A i \in 1..Len(logs) :
             (logs[i][1] = "res" /\ logs[i][2] = "extract_answer") =>
                logs[i][3] = simulate_human_answer

\* ------------------------------------------------------------------ C15
\* C15: the score written by the scoring function (the service's handler
\* and the standalone script's alike) is an integer from 0 to 100, for
\* every number of knowledge-base hits, every priority value (None
\* included) and every jitter value drawn.
C15_ScoreInRange ==
    /\ pc \in {"score_done", "demo_score_done"} => state.has_score
    /\ state.has_score => (state.score \in Int /\ state.score >= 0 /\ state.score <= 100)

\* the handler was applied to a state with more hits than the bonus counts
\* and a priority other than "HIGH", and drew the largest jitter: score 93
C15_Witness ==
    /\ pc = "score_done"
    /\ state.kb_hits >= 3
    /\ state.payload.priority = S_high
    /\ drawn = JitterHigh
    /\ state.score = 93

\* ------------------------------------------------------------------ C16
\* the claimed formula, case by case
ClaimedBase(hits, prio) ==
    70 + (IF 10 * hits <= 20 THEN 10 * hits ELSE 20) - (IF prio = S_HIGH THEN 10 ELSE 0)

ClaimedScore(hits, prio, jitter) ==
    LET raw == ClaimedBase(hits, prio) + jitter
    IN IF raw < 0 THEN 0 ELSE IF raw > 100 THEN 100 ELSE raw

\* C16 (as claimed): every evaluation of the scoring function (the service's
\* handler and the standalone script's alike) drew a jitter from -3 to 3 and
\* wrote clamp(0, 100, 70 + min(20, 10 * kbHits)
\* - (10 if priority == "HIGH" else 0) + jitter).
C16_Original ==
    pc \in {"score_done", "demo_score_done"} =>
        /\ drawn \in -3..3
        /\ state.score = ClaimedScore(state.kb_hits, state.payload.priority, drawn)

\* ------------------------------------------------------------------ C17
\* the stages that declare the ticket-update abilities
IsUpdateStage(stage) ==
    IsSeqMode(stage.mode) /\ stage.abilities = <<"update_ticket", "close_ticket">>

\* number of capability calls issued for operation op
IssuedCount(op) == Cardinality({i \in 1..Len(mcp) : mcp[i].op = op})

\* the run has logged the marker of stage s
StageReached(s) == Len(MarkerSeq) >= s

\* C17 (as claimed): in a finished run that reached the ticket-update stage
\* the close_ticket capability call was issued if and only if a score of at
\* least 90 is recorded.
C17_Original ==
    \A s \in 1..Len(stages) :
        (IsUpdateStage(stages[s]) /\ StageReached(s) /\ pc = "done") =>
            (IssuedCount("close_ticket") >= 1 <=> (state.has_score /\ state.score >= 90))

\* C17 (amended): the close_ticket capability call is issued at most once
\* and only with a recorded score of at least 90; in a run whose
\* ticket-update stage got as far as the close step (update_ticket did not
\* raise) it was issued if and only if a score of at least 90 is recorded;
\* a run that completed the stage got as far as the close step; and in a
\* run whose update_ticket call raised, the close ability was not invoked and
\* no close_ticket call was issued, whatever the score.
C17_CloseIffScoreAtLeast90 ==
    /\ IssuedCount("close_ticket") <= 1
    /\ IssuedCount("close_ticket") = 1 => (state.has_score /\ state.score >= 90)
    /\ \A s \in 1..Min(si, Len(stages)) :
         IsUpdateStage(stages[s]) =>
            /\ CallCount(s, "close_ticket") <= 1
            /\ StageCompleted(s) => CallCount(s, "close_ticket") = 1
            /\ (raised # <<>> /\ raised[1] = s /\ raised[2] = "update_ticket") =>
                  /\ CallCount(s, "close_ticket") = 0
                  /\ IssuedCount("close_ticket") = 0
            /\ CallCount(s, "close_ticket") = 1 =>
                  (IssuedCount("close_ticket") = 1 <=> (state.has_score /\ state.score >= 90))

\* a run of the default pipeline recorded a score of exactly 90, issued the
\* close_ticket call and finished with status "closed"
C17_Witness ==
    /\ stages = STAGE_CONFIG
    /\ pc = "done"
    /\ outcome = "returned"
    /\ state.score = 90
    /\ IssuedCount("close_ticket") = 1
    /\ state.payload.status = "closed"

\* ------------------------------------------------------------------ C18
\* the positions in mcp of the calls issued for operation op
IssuedAt(op) == {i \in 1..Len(mcp) : mcp[i].op = op}

\* normalize_fields on a priority value as given in the input
NormalizedPriority(prio) == Upper(IF Truthy(prio) THEN prio ELSE S_NORMAL)

\* C18: once a run has logged the marker of the ticket-update stage and
\* taken its first step, exactly one update_ticket capability call has been issued,
\* whatever the score (and with none recorded); its request carries the
\* state's ticket_id, status "in_progress", the state's priority (in the
\* default pipeline the normalized input priority) and the escalation
\* assignee (None when no escalation call was made); no update_ticket call
\* is issued anywhere else, and a close_ticket call comes after it.
C18_UpdateOnceBeforeClose ==
    /\ IssuedCount("update_ticket") <= 1
    /\ \A i \in IssuedAt("close_ticket") : \E j \in IssuedAt("update_ticket") : j < i
    /\ \A s \in 1..Min(si, Len(stages)) :
         (IsUpdateStage(stages[s]) /\ StageReached(s)
            /\ ~(pc = "ability" /\ si = s /\ ai = 1)) =>
            /\ CallCount(s, "update_ticket") = 1
            /\ IssuedCount("update_ticket") = 1
            /\ \A i \in IssuedAt("update_ticket") :
                 /\ mcp[i].args = << state.payload.ticket_id, "in_progress",
                                     state.payload.priority, EscalatedToOrNone(state) >>
                 /\ IssuedCount("escalation_decision") = 0 => mcp[i].args[4] = "None"
                 /\ stages = STAGE_CONFIG =>
                       mcp[i].args[3] = NormalizedPriority(input_payload.priority)
                 /\ \A c \in 1..Len(calls) :
                       calls[c] = <<s, "close_ticket">> =>
                          \E u \in 1..(c - 1) : calls[u] = <<s, "update_ticket">>

\* a run of the default pipeline on priority "high" and ticket "tckt-1" was
\* escalated to agent-7 and has finished: the one update_ticket request
\* carried TCKT-1, in_progress, HIGH and agent-7, and no close call was made
C18_Witness ==
    /\ stages = STAGE_CONFIG
    /\ pc = "done"
    /\ outcome = "returned"
    /\ input_payload.priority = S_high
    /\ state.score < 90
    /\ IssuedCount("update_ticket") = 1
    /\ \E i \in IssuedAt("update_ticket") :
          mcp[i].args = << S_TCKT1, "in_progress", S_HIGH, "agent-7" >>
    /\ IssuedCount("close_ticket") = 0

\* ------------------------------------------------------------------ C19
\* C19 (as claimed): a run that was cancelled while a capability call was
\* in flight has stopped with an error entry as the last entry of its log
\* and with _persist_run invoked once.
C19_Original ==
    (pc = "done" /\ raised # <<>> /\ raised[3] = "CancelledError") =>
        /\ logs # <<>> /\ logs[Len(logs)][1] = "error"
        /\ persistCount = 1

\* ------------------------------------------------------------------ C20
\* the state and log of run r are those it has when it runs alone on its
\* input and receives the same responses
SameAsAlone(r) == RunRec(r) = alone[r]

\* C20: with several runs on one engine interleaved at their suspension
\* points, every run has at all times, and so at its end, the position, the
\* state and the log it has when running alone on its input with the
\* responses it has received; every run commits at most one row, which holds
\* that run's input and the state and log it has alone; and a step changes
\* the state and log of no run other than the one taking it.
C20_RunsIsolated ==
    /\ [](/\ \A r \in RunIds : SameAsAlone(r)
          /\ \A i \in 1..Len(rows) :
               /\ rows[i].input_payload = ConcInput(rows[i].run)
               /\ rows[i].result_payload = alone[rows[i].run].state
               /\ rows[i].logs = alone[rows[i].run].logs
               /\ \A j \in 1..Len(rows) : rows[j].run = rows[i].run => j = i)
    /\ [][\A q \in RunIds : frames'[q] # frames[q] => ctl'[q] # ctl[q]]_vars

\* two runs on one engine have both finished and returned: the call of run 1
\* took two attempts (the first failed at transport level), run 2 committed
\* its row before run 1 did, and each holds its own normalized priority,
\* ticket and SLA flag
C20_Witness ==
    /\ ctl[1].pc = "done" /\ ctl[1].outcome = "returned"
    /\ ctl[2].pc = "done" /\ ctl[2].outcome = "returned"
    /\ Len(ctl[1].hist) = 2 /\ ctl[1].hist[1].transport
    /\ Len(rows) = 2 /\ rows[1].run = 2 /\ rows[2].run = 1
    /\ frames[1].state.payload.priority = S_HIGH
    /\ frames[1].state.payload.ticket_id = S_TCKT1
    /\ frames[1].state.sla_risk
    /\ frames[2].state.payload.priority = Upper(S_low)
    /\ ~frames[2].state.sla_risk

\* ------------------------------------------------------------------ C21
\* the mode of the stage is one the engine dispatches on
IsKnownMode(mode) == IsSeqMode(mode) \/ mode = "non-deterministic"

\* C21: a stage whose mode is none of 'deterministic', 'human' and
\* 'non-deterministic' invokes none of its abilities and raises nothing; as
\* soon as its marker is logged, a warning entry naming the mode follows it
\* as the only other entry of the stage; and a finished run in which no
\* handler raised has gone through every stage, the later ones included, and
\* has invoked the abilities of every later sequential stage.
C21_UnknownModeSkipped ==
    /\ \A s \in 1..Min(si, Len(stages)) :
         ~IsKnownMode(stages[s].mode) =>
            /\ CallsOfStage(s) = <<>>
            /\ (raised # <<>> => raised[1] # s)
            /\ StageReached(s) =>
                  /\ HasEntry(s, "unknown_mode", stages[s].mode)
                  /\ Cardinality({i \in 1..Len(logs) : StageOfEntry(i) = s}) = 2
                  /\ pc = "stage" => si = s + 1
    /\ (pc = "done" /\ raised = <<>>) =>
          /\ Len(MarkerSeq) = Len(stages)
          /\ \A s \in 1..Len(stages) :
               IsSeqMode(stages[s].mode) =>
                  CallsOfStage(s) = SelectSeq(stages[s].abilities, InRegistry)

\* a run whose second stage has mode "parallel" has finished and returned:
\* the warning was logged, neither ability of that stage was invoked (no
\* enrichment call, no flags), and the third stage ran its ability
C21_Witness ==
    /\ stages \in UnknownModeStages
    /\ stages[2].mode = "parallel"
    /\ pc = "done"
    /\ outcome = "returned"
    /\ HasEntry(2, "unknown_mode", "parallel")
    /\ CallsOfStage(1) = <<"normalize_fields">>
    /\ CallsOfStage(2) = <<>>
    /\ CallsOfStage(3) = <<"output_payload">>
    /\ mcp = <<>>
    /\ "flags" \notin state.keys

\* ------------------------------------------------------------------ C22
\* a decision-mode stage whose rule is absent or another one
IsFallbackStage(stage) ==
    stage.mode = "non-deterministic" /\ stage.exec_rule # "score_then_maybe_escalate"

\* C22: in a decision-mode stage whose rule is absent or not
\* score_then_maybe_escalate the handlers invoked are the stage's resolved
\* abilities in declared order (a prefix while the stage is running or after
\* it failed, all of them, each once, when it is completed), whatever the
\* score: the engine logs no 'skipping escalation' entry there, and the
\* escalation ability is invoked with a score of 90 or more as well.
C22_FallbackRunsDeclared ==
    \A s \in 1..Min(si, Len(stages)) :
        IsFallbackStage(stages[s]) =>
            LET declared == SelectSeq(stages[s].abilities, InRegistry)
                observed == CallsOfStage(s)
            IN /\ IsPrefix(observed, declared)
               /\ StageCompleted(s) => observed = declared
               /\ ~HasEntry(s, "skip", "escalation_decision")
               /\ \A i \in 1..Len(logs) :
                     (StageOfEntry(i) = s /\ logs[i][1] # "stage") =>
                        logs[i][1] \in {"fallback", "error"}

\* a run has completed a decision stage without a rule that declares
\* update_payload, solution_evaluation, escalation_decision: they were
\* invoked in that order, the score is 90 or more, the escalation ability was
\* invoked all the same (and made no escalation call)
C22_Witness ==
    /\ stages \in FallbackOrderStages
    /\ StageCompleted(2)
    /\ CallsOfStage(2) = <<"update_payload", "solution_evaluation", "escalation_decision">>
    /\ state.has_score /\ state.score >= 90
    /\ HasEntry(2, "fallback", "escalation_decision")
    /\ IssuedCount("escalation_decision") = 0
    /\ state.audit = <<"empty">>

\* ------------------------------------------------------------------ C23
\* C23 (as claimed): a run of the default pipeline on priority "high" and
\* ticket_id "tckt-1" that has returned its result holds priority "HIGH",
\* ticket_id "TCKT-1" and a score from 0 to 100; with a score below 90 an
\* escalation assignee is recorded and status is not "closed"; with a score
\* of 90 or more status is "closed".
C23_Original ==
    (/\ stages = STAGE_CONFIG
     /\ input_payload.priority = S_high /\ input_payload.ticket_id = S_tckt1
     /\ pc = "done" /\ outcome = "returned") =>
        /\ state.payload.priority = S_HIGH
        /\ state.payload.ticket_id = S_TCKT1
        /\ state.has_score /\ state.score >= 0 /\ state.score <= 100
        /\ state.score < 90 =>
              (EscalatedToOrNone(state) # "None" /\ state.payload.status # "closed")
        /\ state.score >= 90 => state.payload.status = "closed"

\* ------------------------------------------------------------------ C24
\* the handlers the rule's protocol invokes under the stored score
ProtocolCalls(st) ==
    IF st.has_score /\ st.score >= 90
    THEN <<"solution_evaluation", "update_payload">>
    ELSE <<"solution_evaluation", "escalation_decision", "update_payload">>

\* C24: in a decision stage with rule score_then_maybe_escalate the handlers
\* invoked are solution_evaluation, then escalation_decision if and only if
\* the score is below 90, then update_payload (a prefix of that while the
\* stage is running or after it failed, all of it when it is completed),
\* whatever the stage declares: nothing, the three in another order, or
\* names without a handler; and in the log the stage marker, the score entry
\* and the escalation or skip entry follow each other directly.
C24_RuleProtocolFixed ==
    \A s \in 1..Min(si, Len(stages)) :
        IsRuleStage(stages[s]) =>
            /\ IsPrefix(CallsOfStage(s), ProtocolCalls(state))
            /\ StageCompleted(s) => CallsOfStage(s) = ProtocolCalls(state)
            /\ \A i \in 1..Len(logs) :
                  logs[i][1] \in {"escalation", "skip"} =>
                     /\ i > 2
                     /\ logs[i - 1] = <<"score", "solution_evaluation", state.score>>
                     /\ logs[i - 2][1] = "stage"

\* a run has completed a rule stage that declares update_payload,
\* escalation_decision, solution_evaluation in that order, with a score
\* below 90: the three handlers were invoked in the protocol's order and the
\* audit entry was taken after the score was stored
C24_Witness ==
    /\ stages \in RuleDeclStages
    /\ Len(stages) = 2
    /\ stages[2].abilities = <<"update_payload", "escalation_decision", "solution_evaluation">>
    /\ StageCompleted(2)
    /\ state.score < 90
    /\ CallsOfStage(2) = <<"solution_evaluation", "escalation_decision", "update_payload">>
    /\ state.audit = <<"decision">>

\* ------------------------------------------------------------------ C25
\* the entries a step appends to the log
Appended == [i \in 1..(Len(logs') - Len(logs)) |-> logs'[Len(logs) + i]]

\* C25: the log only grows at its end (no entry is ever removed or
\* rewritten); its first entry is a stage marker; the k-th marker is that of
\* the k-th stage of the list, so the markers are a prefix of the stage list
\* at all times, in an aborted run the prefix that ends with the failing
\* stage; while an ability of stage si is running the marker of stage si is
\* the last marker logged; and what a step appends is, at the top of the
\* stage loop, the marker of the stage (followed by nothing but the
\* unknown-mode warning), and in an ability step, entries other than markers
\* that name the ability being run or the exception it raised.
C25_LogAppendOnly ==
    /\ [](/\ Len(MarkerSeq) <= Len(stages)
          /\ \A k \in 1..Len(MarkerSeq) :
               MarkerSeq[k] = <<"stage", stages[k].name, stages[k].mode>>
          /\ logs # <<>> => logs[1][1] = "stage"
          /\ pc \in {"ability", "call"} => Len(MarkerSeq) = si
          /\ raised # <<>> =>
                (Len(MarkerSeq) = raised[1] /\ logs[Len(logs)][1] = "error"))
    /\ [][ /\ IsPrefix(logs, logs')
           /\ \A i \in 1..Len(Appended) :
                CASE pc = "stage" ->
                        IF i = 1
                        THEN Appended[i] = <<"stage", stages[si].name, stages[si].mode>>
                        ELSE i = 2 /\ Appended[i][1] = "unknown_mode"
                  [] pc \in {"ability", "call"} ->
                        /\ Appended[i][1] # "stage"
                        /\ \/ Appended[i][1] = "error"
                           \/ Appended[i][2] = StepList(stages[si])[ai]
                  [] OTHER -> FALSE ]_vars

\* a run of the default pipeline was aborted in its seventh stage by the
\* escalation call: the log holds the markers of the first seven stages in
\* order, the score entry of the seventh, and the error entry at its end
C25_Witness ==
    /\ stages = STAGE_CONFIG
    /\ pc = "done"
    /\ raised # <<>> /\ raised[1] = 7 /\ raised[2] = "escalation_decision"
    /\ Len(MarkerSeq) = 7
    /\ MarkerSeq[7] = <<"stage", "DECIDE", "non-deterministic">>
    /\ logs[Len(logs)][1] = "error"
    /\ logs[Len(logs) - 1][1] = "score"
    /\ logs[Len(logs) - 2] = MarkerSeq[7]

\* ------------------------------------------------------------------ C26
\* C26: the dict the caller passed to run holds at all times what it held
\* when run was called; run starts from a state whose payload equals the
\* input, with an empty log; and the row handed to the commit, after a
\* completed run as after an aborted one, carries the input as it was passed
\* (its ticket_id column included), while its result payload carries what
\* the handlers have written.
C26_InputUntouched ==
    /\ [](/\ pc # "idle" => CallerDict(input_payload, state.payload) = input_payload
          /\ \A i \in 1..Len(persisted) :
               /\ persisted[i].input_payload = input_payload
               /\ persisted[i].ticket_id = input_payload.ticket_id
               /\ persisted[i].result_payload = state
               /\ persisted[i].logs = logs)
    /\ [][ /\ pc = "idle" =>
                (state'.payload = input_payload' /\ state' = InitialState(input_payload')
                 /\ logs' = <<>>)
           /\ pc # "idle" => input_payload' = input_payload ]_vars

\* a run of the default pipeline on priority "high" and ticket "tckt-1" was
\* aborted by enrich_records, after normalize_fields had run: the row
\* committed holds the input with "high" and "tckt-1" and a result payload
\* with "HIGH" and "TCKT-1"
C26_Witness ==
    /\ stages = STAGE_CONFIG
    /\ pc = "done"
    /\ raised # <<>> /\ raised[2] = "enrich_records"
    /\ Len(persisted) = 1
    /\ persisted[1].input_payload.priority = S_high
    /\ persisted[1].input_payload.ticket_id = S_tckt1
    /\ persisted[1].ticket_id = S_tckt1
    /\ persisted[1].result_payload.payload.priority = S_HIGH
    /\ persisted[1].result_payload.payload.ticket_id = S_TCKT1

\* ------------------------------------------------------------------ C27
\* the response that ended the capability call the run made last
LastResponse == ctl[1].hist[Len(ctl[1].hist)]

\* C27 (as claimed): the payload status is "closed" only if the run's last
\* capability call, the close call, was answered with a success; in a run
\* aborted by the close call the state that is persisted does not have
\* status "closed"; and with a score below 90 status is not "closed".
C27_Original ==
    /\ frames[1].state.payload.status = "closed" =>
          /\ ctl[1].hist # <<>>
          /\ IsSuccess(LastResponse)
    /\ ctl[1].error # "none" => frames[1].state.payload.status # "closed"
    /\ (frames[1].state.has_score /\ frames[1].state.score < 90) =>
          frames[1].state.payload.status # "closed"

\* ------------------------------------------------------------------ C28
\* C28: every run in which each attempt of a capability call and the commit
\* come to an end reaches its end, where the caller has the result or the
\* exception; a capability call is never about to make more than
\* maxAttempts attempts; the stage index never goes back and never passes
\* the end of the stage list, the ability index advances within a stage,
\* and every stage's marker is logged at most once.
C28_RunTerminates ==
    /\ <>(pc = "done" /\ outcome # "running")
    /\ [](/\ attempt + 1 <= maxAttempts
          /\ si <= Len(stages) + 1
          /\ Len(MarkerSeq) <= Len(stages)
          /\ Len(MarkerSeq) <= si)
    /\ [][ /\ si' >= si
           /\ si' = si => ai' >= ai
           /\ attempt' <= attempt + 1 ]_vars

\* a run of the default pipeline has ended in its tenth stage, by raising
\* the transport error of the last attempt of execute_api_calls to the
\* caller: ten markers, one per stage visited
C28_Witness ==
    /\ stages = STAGE_CONFIG
    /\ pc = "done"
    /\ raised = <<10, "execute_api_calls", "TransportError">>
    /\ outcome = "TransportError"
    /\ Len(MarkerSeq) = 10
    /\ si = 10

\* ------------------------------------------------------------------ C29
\* C29: in the default pipeline a score stored with priority "HIGH" after
\* normalization or with fewer than two knowledge-base hits is below 90; the
\* close_ticket call is issued, and status set to "closed", only with a
\* priority other than "HIGH" and at least two hits; and a run with priority
\* "HIGH" or fewer than two hits that has returned its result has issued the
\* escalation call once and no close call.
C29_CloseNeedsHitsAndPriority ==
    stages = STAGE_CONFIG =>
        LET blocked == state.payload.priority = S_HIGH \/ state.kb_hits < 2
        IN /\ (state.has_score /\ blocked) => state.score < 90
           /\ (IssuedCount("close_ticket") >= 1 \/ state.payload.status = "closed") =>
                 (state.payload.priority # S_HIGH /\ state.kb_hits >= 2)
           /\ (pc = "done" /\ outcome = "returned" /\ blocked) =>
                 /\ IssuedCount("escalation_decision") = 1
                 /\ IssuedCount("close_ticket") = 0
                 /\ state.payload.status # "closed"

\* a run of the default pipeline on priority "high" found two hits, drew
\* the largest jitter and has returned: score 83, escalated, not closed
C29_Witness ==
    /\ stages = STAGE_CONFIG
    /\ pc = "done"
    /\ outcome = "returned"
    /\ input_payload.priority = S_high
    /\ state.payload.priority = S_HIGH
    /\ state.kb_hits = 2
    /\ state.score = 83
    /\ IssuedCount("escalation_decision") = 1
    /\ IssuedCount("close_ticket") = 0
    /\ state.payload.status # "closed"

\* ------------------------------------------------------------------ C30
\* C30: in the default pipeline the escalation call is issued at most once
\* and only with a score below 90, the close call at most once and only with
\* a score of 90 or more, so never both; and a run that has returned its
\* result has issued exactly one of them: the escalation call if its score
\* is below 90, the close call otherwise.
C30_EscalateXorClose ==
    stages = STAGE_CONFIG =>
        LET esc == IssuedCount("escalation_decision")
            cls == IssuedCount("close_ticket")
        IN /\ esc <= 1 /\ cls <= 1 /\ esc + cls <= 1
           /\ esc = 1 => (state.has_score /\ state.score < 90)
           /\ cls = 1 => (state.has_score /\ state.score >= 90)
           /\ (pc = "done" /\ outcome = "returned") =>
                 /\ esc + cls = 1
                 /\ esc = 1 <=> state.score < 90
                 /\ cls = 1 <=> state.score >= 90

\* a run of the default pipeline with no priority given found two hits,
\* scored 93 and has returned: the close call was issued, no escalation call
C30_Witness ==
    /\ stages = STAGE_CONFIG
    /\ pc = "done"
    /\ outcome = "returned"
    /\ input_payload.priority = NoneStr
    /\ state.payload.priority = S_NORMAL
    /\ state.score = 93
    /\ IssuedCount("close_ticket") = 1
    /\ IssuedCount("escalation_decision") = 0
    /\ state.escalated_to = "unset"

\* ------------------------------------------------------------------ C31
\* the score the scoring function writes for a number of hits, with or
\* without the penalty, and a jitter
ScoreWith(hits, penalty, jitter) ==
    Max(0, Min(100, 70 + Min(20, hits * 10) - (IF penalty THEN 10 ELSE 0) + jitter))

\* C31: in the default pipeline, once PREPARE is completed the state's
\* priority is the upper-cased input priority, or "NORMAL" for an absent or
\* empty one, and the SLA-risk flag is true exactly when that is "HIGH"; once
\* the score is stored it carries the 10-point penalty exactly when that is
\* "HIGH"; so every letter-case spelling of "high" gives the flag and the
\* penalty, and an absent priority gives neither.
C31_FlagAndPenaltyFromNormalized ==
    LET prio == input_payload.priority
        high == NormalizedPriority(prio) = S_HIGH
    IN /\ StageCompleted(3) =>
             /\ state.payload.priority = NormalizedPriority(prio)
             /\ state.sla_risk = high
             /\ prio \in HighSpellings => (high /\ state.sla_risk)
             /\ ~Truthy(prio) => (state.payload.priority = S_NORMAL /\ ~state.sla_risk)
       /\ state.has_score =>
             /\ state.score = ScoreWith(state.kb_hits, high, drawn)
             /\ prio \in HighSpellings =>
                   state.score = ScoreWith(state.kb_hits, FALSE, drawn) - 10
             /\ ~Truthy(prio) => state.score = ScoreWith(state.kb_hits, FALSE, drawn)

\* a run of the default pipeline on priority "hIgH" found two hits, drew
\* jitter 0 and has returned: priority "HIGH", flag set, score 80
C31_Witness ==
    /\ input_payload.priority = <<"h", "I", "g", "H">>
    /\ pc = "done"
    /\ outcome = "returned"
    /\ state.payload.priority = S_HIGH
    /\ state.sla_risk
    /\ state.kb_hits = 2
    /\ drawn = 0
    /\ state.score = 80

\* ------------------------------------------------------------------ C32
\* C32: as long as no score has been recorded in a run, under every stage
\* list, no escalation call and no close call has been issued, no assignee
\* is recorded and the payload status is what the input gave, also after
\* the escalation and the close ability have been invoked; and every
\* update_ticket request issued carries no assignee.
C32_NoScoreNoEscalationNoClose ==
    ~state.has_score =>
        /\ IssuedCount("escalation_decision") = 0
        /\ IssuedCount("close_ticket") = 0
        /\ state.escalated_to = "unset"
        /\ pc # "idle" => state.payload.status = input_payload.status
        /\ state.payload.status # "closed"
        /\ \A i \in IssuedAt("update_ticket") : mcp[i].args[4] = "None"

\* a run of a decision stage without a rule that declares the escalation
\* ability but not the scoring ability, followed by the ticket-update stage,
\* has returned: both the escalation and the close ability were invoked, no
\* score is recorded, the only call issued is the ticket update
C32_Witness ==
    /\ stages \in NoScoreStages
    /\ stages[1].mode = "non-deterministic"
    /\ pc = "done"
    /\ outcome = "returned"
    /\ ~state.has_score
    /\ CallsOfStage(1) = <<"escalation_decision", "update_payload">>
    /\ CallsOfStage(2) = <<"update_ticket", "close_ticket">>
    /\ Len(mcp) = 1 /\ mcp[1].op = "update_ticket"
    /\ state.audit = <<"empty">>

\* ------------------------------------------------------------------ C33
\* the handler invocations that have returned: all of them, except the last
\* one while its capability call is in flight or after it raised
CompletedCalls ==
    IF pc = "call" \/ error # "none" THEN SubSeq(calls, 1, Len(calls) - 1) ELSE calls

CompletedNames == {CompletedCalls[i][2] : i \in 1..Len(CompletedCalls)}

InvokedNames == {calls[i][2] : i \in 1..Len(calls)}

CompletedCount(name) ==
    Cardinality({i \in 1..Len(CompletedCalls) : CompletedCalls[i][2] = name})

\* the top-level key of the state a handler writes, for those that write one
WritesKey ==
    { <<"parse_request_text", "parsed">>, <<"extract_entities", "entities">>,
      <<"enrich_records", "enrichment">>, <<"add_flags_calculations", "flags">>,
      <<"clarify_question", "pending_clarification">>, <<"extract_answer", "answers">>,
      <<"store_answer", "latest_answer">>, <<"knowledge_base_search", "kb">>,
      <<"solution_evaluation", "decision">>, <<"update_payload", "audit">>,
      <<"response_generation", "generated_response">> }

\* st holds what the handlers that returned have written, and nothing from a
\* handler that was never invoked
HoldsCompletedWork(st) ==
    /\ \A w \in WritesKey :
          /\ w[1] \in CompletedNames => w[2] \in st.keys
          /\ w[2] \in st.keys => w[1] \in InvokedNames
    /\ st.has_score <=> "solution_evaluation" \in CompletedNames
    /\ Len(st.audit) = CompletedCount("update_payload")
    /\ Len(st.answers) = CompletedCount("extract_answer")
    /\ "add_flags_calculations" \notin InvokedNames => ~st.sla_risk
    /\ "knowledge_base_search" \notin CompletedNames => st.kb_hits = 0
    /\ "store_answer" \notin InvokedNames => st.latest_answer = "None"
    /\ st.escalated_to # "unset" => "escalation_decision" \in CompletedNames
    /\ st.payload.status = "closed" /\ input_payload.status # "closed"
          => "close_ticket" \in CompletedNames
    /\ "normalize_fields" \in CompletedNames
          => st.payload.priority = NormalizedPriority(input_payload.priority)
    /\ "normalize_fields" \notin InvokedNames
          => st.payload.priority = input_payload.priority
             /\ st.payload.ticket_id = input_payload.ticket_id

\* C33: once run's except clause has been entered, the log handed to
\* _persist_run ends with the error entry of the exception caught and holds
\* no other error entry, and the state handed to it holds everything the
\* handlers that returned before the failing one have written and nothing
\* from a handler never invoked; a row that was committed holds that log
\* and that state; on the success path the log holds no error entry and the
\* committed row's log is the log returned to the caller.
C33_PersistedRecord ==
    /\ pc \in {"persist", "deliver", "done"} =>
          /\ HoldsCompletedWork(state)
          /\ error # "none" =>
                /\ logs # <<>>
                /\ logs[Len(logs)] = <<"error", error, "">>
                /\ \A i \in 1..(Len(logs) - 1) : logs[i][1] # "error"
                /\ raised[2] = calls[Len(calls)][2]
          /\ error = "none" => \A i \in 1..Len(logs) : logs[i][1] # "error"
    /\ pc \in {"deliver", "done"} /\ persistOk =>
          /\ persisted # <<>>
          /\ persisted[Len(persisted)].logs = logs
          /\ persisted[Len(persisted)].result_payload = state
    /\ pc \in {"deliver", "done"} /\ ~persistOk => persisted = <<>>

\* a run of the default pipeline whose knowledge_base_search call raised has
\* been committed: the row's log ends with the error entry, its state holds
\* what the stages before RETRIEVE wrote and neither search hits nor a score
C33_Witness ==
    /\ stages = STAGE_CONFIG
    /\ pc = "done"
    /\ outcome = "MCPClientError"
    /\ raised = <<6, "knowledge_base_search", "MCPClientError">>
    /\ persistOk
    /\ Len(persisted) = 1
    /\ persisted[1].logs[Len(persisted[1].logs)] = <<"error", "MCPClientError", "">>
    /\ {"parsed", "entities", "enrichment", "flags", "pending_clarification",
         "answers", "latest_answer"} \subseteq persisted[1].result_payload.keys
    /\ "kb" \notin persisted[1].result_payload.keys
    /\ ~persisted[1].result_payload.has_score
    /\ persisted[1].result_payload.audit = <<>>

====
